---------------------------- MODULE Spec2Model ----------------------------
(***************************************************************************)
(* A model of armoryengine/PyBtcWallet.py: the wallet file with its backup *)
(* and its two flag files, the atomic update protocol, and the wallet's    *)
(* key, lock and address-chain state.                                      *)
(*                                                                         *)
(* A file is a sequence of cells.  A cell stands for one fixed-width field *)
(* of the byte layout (a type byte, a 20-byte hash, a length, a serialized *)
(* address, one character of a comment); file offsets count cells from 0.  *)
(*                                                                         *)
(* The specifications share the variables:                                 *)
(*   SpecFS         walletFileSafeUpdate and doWalletFileConsistencyCheck, *)
(*                  one filesystem effect at a time, with crashes and I/O  *)
(*                  errors;                                                *)
(*   Spec           creation, lock, unlock and the changes of encryption,  *)
(*                  each method call whole, a safe update in it one step   *)
(*                  that an I/O error may strike;                          *)
(*   SpecPool       creation, the address chain and the labels, likewise;  *)
(*   SpecLock       locking, unlocking and the clock;                      *)
(*   SpecChain      the address chain of a wallet that is locked and       *)
(*                  unlocked;                                              *)
(*   SpecEntries    the entries of the file under calls that complete;     *)
(*   SpecImport     import and deletion of addresses, calls that fail      *)
(*                  included;                                              *)
(*   SpecSign       signing with chained and imported addresses;           *)
(*   SpecLoad       reading a wallet file of another network or with       *)
(*                  entries of other types;                                *)
(*   SpecComments   comments, calls that fail included;                    *)
(*   SpecRoundTrip  the chain, the labels and the encryption under calls   *)
(*                  that complete;                                         *)
(*   SpecBDM        the calls of the BDM's methods, through the queue or   *)
(*                  direct;                                                *)
(*   SpecCrash      a crash inside changeWalletEncryption and the next     *)
(*                  process opening the wallet;                            *)
(*   SpecDeferred   addresses made while the wallet is locked, and the     *)
(*                  next unlock;                                           *)
(*   SpecPath       the paths of the backup and of the flag files.         *)
(***************************************************************************)
EXTENDS Integers, Sequences, FiniteSets, TLC

VARIABLES
  exists,          \* the paths that exist: a subset of {"P", "B", "MUF", "BUF"}
  data,            \* data["P"], data["B"]: the cells of the wallet file and its backup
  pc,              \* the next statement of the running file operation
  ccRet,           \* where doWalletFileConsistencyCheck returns to
  updateList,      \* the argument of the running walletFileSafeUpdate
  modIdx,          \* the next element of dataToChange to write
  suRet,           \* what the last walletFileSafeUpdate did: "none", "ok", "empty", "raised"
  skipBackupFile,  \* createNewWallet's argument
  wltCreated,      \* createNewWallet has finished writing its files
  crashAt,         \* the statement the last crash interrupted ("none" before any)
  ioError,         \* the IOError the running safe update met: "none", "main", "backup"
  preData,         \* the wallet file when the running safe update began
  useEncryption,   \* self.useEncryption
  isLocked,        \* self.isLocked
  kdf,             \* self.kdf: the identity of the KDF parameters, 0 for None
  kdfKey,          \* self.kdfKey: a SecureBinaryData or None
  defaultKeyLifetime,
  lockWalletAtTime,
  addrMap,         \* self.addrMap: key (ROOT or a hash160) -> PyBtcAddress
  linearAddr160List,
  chainIndexMap,
  lastComputedChainIndex,
  lastComputedChainAddr160,
  highestUsedChainIndex,
  labelName,
  labelDescr,
  commentsMap,     \* self.commentsMap: hash -> comment
  commentLocs,     \* self.commentLocs: hash -> where its comment entry starts
  now,             \* what RightNow() returns
  lastOp,          \* the wallet method called last
  raised,          \* the exception it left with, "none" if it returned
  suFailed,        \* how a walletFileSafeUpdate it made failed: "none", "empty", "raised"
  leaked,          \* the local keys it made and left alive: "function.variable"
  calledFromBDM,   \* self.calledFromBDM: the BDM is the caller of the methods
  walletPath,      \* self.walletPath, a sequence of cells; <<>> is the empty string
  fpath            \* what getWalletPath returned last

\* the state of the file protocol's running operation
fsProc == <<pc, ccRet, updateList, modIdx, suRet, skipBackupFile, wltCreated, crashAt,
            ioError, preData>>

fsVars == <<exists, data, fsProc>>

\* the wallet object
wltVars == <<useEncryption, isLocked, kdf, kdfKey, defaultKeyLifetime,
             lockWalletAtTime, addrMap,
             linearAddr160List, chainIndexMap, lastComputedChainIndex,
             lastComputedChainAddr160, highestUsedChainIndex, labelName, labelDescr,
             commentsMap, commentLocs, now, lastOp, raised, suFailed, leaked,
             calledFromBDM, walletPath, fpath>>

vars == <<fsVars, wltVars>>

-----------------------------------------------------------------------------
(* Program constants *)

WLT_UPDATE_ADD == 0
WLT_UPDATE_MODIFY == 1

WLT_DATATYPE_KEYDATA == 0
WLT_DATATYPE_ADDRCOMMENT == 1
WLT_DATATYPE_TXCOMMENT == 2
WLT_DATATYPE_OPEVAL == 3
WLT_DATATYPE_DELETED == 4

-----------------------------------------------------------------------------
(* Bounds *)

\* the longest updateList a safe update is given in SpecFS
MaxUpd == 2
\* the number of cells a wallet file may hold in SpecFS
MaxFileLen == 6

Max(a, b) == IF a > b THEN a ELSE b
Min(a, b) == IF a < b THEN a ELSE b

-----------------------------------------------------------------------------
(* walletFileSafeUpdate: the pure part, lines 2052-2093 *)

\* toAppend.put(...) of one ADD entry
SerializeEntry(entry) ==
  IF entry.dtype = WLT_DATATYPE_KEYDATA
  THEN <<WLT_DATATYPE_KEYDATA, entry.hash, entry.payload>>
  ELSE <<entry.dtype, entry.hash, Len(entry.payload)>> \o entry.payload

\* an entry the parsing loop raises on: walletFileSafeUpdate then returns []
IsBadEntry(entry) ==
  \/ entry.modType \notin {WLT_UPDATE_ADD, WLT_UPDATE_MODIFY}
  \/ /\ entry.modType = WLT_UPDATE_ADD
     /\ entry.dtype = WLT_DATATYPE_OPEVAL

BadInput(updList) == \E i \in 1..Len(updList) : IsBadEntry(updList[i])

RECURSIVE binaryToAppend(_)
binaryToAppend(updList) ==
  IF updList = <<>> THEN <<>>
  ELSE (IF Head(updList).modType = WLT_UPDATE_ADD
        THEN SerializeEntry(Head(updList)) ELSE <<>>)
       \o binaryToAppend(Tail(updList))

RECURSIVE dataToChange(_)
dataToChange(updList) ==
  IF updList = <<>> THEN <<>>
  ELSE (IF Head(updList).modType = WLT_UPDATE_MODIFY
        THEN <<Head(updList)>> ELSE <<>>)
       \o dataToChange(Tail(updList))

\* updateLocations, given the size of the file and of toAppend so far
RECURSIVE updateLocations(_, _)
updateLocations(updList, appendAt) ==
  IF updList = <<>> THEN <<>>
  ELSE IF Head(updList).modType = WLT_UPDATE_ADD
       THEN <<appendAt>> \o
            updateLocations(Tail(updList), appendAt + Len(SerializeEntry(Head(updList))))
       ELSE <<Head(updList).loc>> \o updateLocations(Tail(updList), appendAt)

\* wltfile.seek(loc); wltfile.write(replStr) on a file opened 'r+b'
SeekWrite(file, loc, replStr) ==
  [i \in 1..Max(Len(file), loc + Len(replStr)) |->
     IF i > loc /\ i <= loc + Len(replStr) THEN replStr[i - loc]
     ELSE IF i <= Len(file) THEN file[i] ELSE 0]

RECURSIVE WriteAll(_, _)
WriteAll(file, changes) ==
  IF changes = <<>> THEN file
  ELSE WriteAll(SeekWrite(file, Head(changes).loc, Head(changes).bytes), Tail(changes))

\* the file a completed update leaves: the append, then the changes in order
ApplyUpdate(file, updList) ==
  WriteAll(file \o binaryToAppend(updList), dataToChange(updList))

-----------------------------------------------------------------------------
(* SecureBinaryData, the KDF and PyBtcAddress: the imported primitives *)

\* the passphrases a caller may supply; 0 stands for no passphrase (None)
NumPass == 2
\* the KDF parameter sets computeSystemSpecificKdfParams or a caller may produce
NumKdf == 2

\* a key is None or a SecureBinaryData; val = 0 is the empty (destroyed) buffer
None == [obj |-> FALSE, val |-> 0]
SecureBinaryData(v) == [obj |-> TRUE, val |-> v]
destroy(k) == [k EXCEPT !.val = 0]
\* kdf.DeriveKey(passphrase): one key per (parameters, passphrase)
DeriveKey(kdfObj, securePassphrase) ==
  SecureBinaryData(kdfObj * (NumPass + 1) + securePassphrase)
MaxKeyVal == NumKdf * (NumPass + 1) + NumPass

\* the key of the root address in addrMap
ROOT == 0
\* the hash160 of the address at a chain index (the root's index is -1)
Hash160(chainIndex) == chainIndex + 10

\* an address made from plain key data; encKey is the key its encrypted private
\* key (or, with createPrivKeyNextUnlock, its ancestor's) is encrypted under,
\* 0 when it holds no encrypted private key
createFromPlainKeyData(chainIndex, willBeEncr) ==
  [chainIndex |-> chainIndex, useEncryption |-> willBeEncr, isLocked |-> FALSE,
   hasPlain |-> TRUE, encKey |-> 0, createPrivKeyNextUnlock |-> FALSE,
   walletByteLoc |-> -1]

getAddr160(addr) == Hash160(addr.chainIndex)

hasPrivKey(addr) ==
  addr.hasPlain \/ addr.encKey # 0 \/ addr.createPrivKeyNextUnlock

Bit(b) == IF b THEN 1 ELSE 0

\* addr.serialize(): the fixed-width record, one cell; the plain private key is
\* written only when the address is not encrypted, isLocked and walletByteLoc
\* never
serialize(addr) ==
  (((addr.chainIndex + 2) * 2 + Bit(addr.useEncryption)) * 2
      + Bit(addr.createPrivKeyNextUnlock)) * (MaxKeyVal + 1)
  + addr.encKey

\* PyBtcAddress().unserialize(cell)
unserialize(cell) ==
  LET ek == cell % (MaxKeyVal + 1)
      r1 == cell \div (MaxKeyVal + 1)
      r2 == r1 \div 2
  IN [chainIndex |-> (r2 \div 2) - 2, useEncryption |-> r2 % 2 = 1,
      isLocked |-> FALSE, hasPlain |-> r2 % 2 = 0 /\ r1 % 2 = 0, encKey |-> ek,
      createPrivKeyNextUnlock |-> r1 % 2 = 1, walletByteLoc |-> -1]

\* the result of an address method: the address after it and the exception raised
Ok(addr) == [addr |-> addr, err |-> "none"]
Err(addr, e) == [addr |-> addr, err |-> e]

PyBtcAddress_verifyEncryptionKey(addr, k) ==
  /\ addr.useEncryption
  /\ hasPrivKey(addr)
  /\ k.obj
  /\ k.val # 0
  /\ addr.encKey = k.val

\* addr.lock(k): wipes the plain key when an encrypted copy exists, otherwise
\* needs the key to make one
PyBtcAddress_lock(addr, k) ==
  IF ~addr.useEncryption \/ ~hasPrivKey(addr) THEN Ok(addr)
  ELSE IF addr.encKey # 0
  THEN Ok([addr EXCEPT !.hasPlain = FALSE, !.isLocked = TRUE])
  ELSE IF ~k.obj THEN Err(addr, "WalletLockError")
  ELSE IF k.val = 0 THEN Err(addr, "RuntimeError")
  ELSE Ok([addr EXCEPT !.encKey = k.val, !.hasPlain = FALSE, !.isLocked = TRUE])

\* addr.unlock(k): decrypts the private key and verifies it; with
\* createPrivKeyNextUnlock it derives the key from the ancestor's first
PyBtcAddress_unlock(addr, k) ==
  IF ~addr.useEncryption \/ ~addr.isLocked THEN Ok([addr EXCEPT !.isLocked = FALSE])
  ELSE IF ~k.obj THEN Err(addr, "WalletLockError")
  ELSE IF k.val = 0 \/ k.val # addr.encKey THEN Err(addr, "KeyDataError")
  ELSE Ok([addr EXCEPT !.hasPlain = TRUE, !.isLocked = FALSE,
                       !.createPrivKeyNextUnlock = FALSE])

\* addr.extendAddressChain(k): the next address of the chain, and the parent it
\* leaves; a locked parent and no key give an address whose private key is made
\* on the next unlock
PyBtcAddress_extendAddressChain(addr, k) ==
  LET notDecryptable == hasPrivKey(addr) /\ addr.isLocked /\ ~k.obj
      child == createFromPlainKeyData(addr.chainIndex + 1, addr.useEncryption)
      par == IF addr.useEncryption /\ addr.isLocked
             THEN PyBtcAddress_unlock(addr, k) ELSE Ok(addr)
      locked == PyBtcAddress_lock(child, k)
      made == IF ~child.useEncryption THEN Ok(child)
              ELSE IF locked.err # "none" \/ addr.isLocked THEN locked
              ELSE PyBtcAddress_unlock(locked.addr, k)
  IN IF notDecryptable
     THEN [addr |-> [child EXCEPT !.useEncryption = TRUE, !.isLocked = TRUE,
                                  !.hasPlain = FALSE, !.encKey = addr.encKey,
                                  !.createPrivKeyNextUnlock = TRUE],
           parent |-> addr, err |-> "none"]
     ELSE IF ~hasPrivKey(addr)
     THEN [addr |-> child, parent |-> addr, err |-> "KeyDataError"]
     ELSE IF par.err # "none"
     THEN [addr |-> child, parent |-> addr, err |-> par.err]
     ELSE [addr |-> made.addr, parent |-> par.addr, err |-> made.err]

\* addr.enableKeyEncryption()
PyBtcAddress_enableKeyEncryption(addr) == [addr EXCEPT !.useEncryption = TRUE]

\* addr.changeEncryptionKey(old, new); None for new removes the encryption
PyBtcAddress_changeEncryptionKey(addr, secureOldKey, secureNewKey) ==
  LET u == IF addr.isLocked THEN PyBtcAddress_unlock(addr, secureOldKey) ELSE Ok(addr)
  IN IF ~hasPrivKey(addr) THEN Err(addr, "KeyDataError")
     ELSE IF ~secureOldKey.obj /\ addr.useEncryption /\ addr.isLocked
     THEN Err(addr, "WalletLockError")
     ELSE IF u.err # "none" THEN u
     ELSE IF ~secureNewKey.obj
     THEN Ok([u.addr EXCEPT !.useEncryption = FALSE, !.encKey = 0, !.isLocked = FALSE])
     ELSE IF secureNewKey.val = 0 THEN Err(u.addr, "RuntimeError")
     ELSE Ok([u.addr EXCEPT !.useEncryption = TRUE, !.encKey = secureNewKey.val,
                            !.isLocked = addr.isLocked, !.hasPlain = ~addr.isLocked])

\* PyBtcWallet.__init__, lines 164-200
InitObject ==
  /\ useEncryption = FALSE
  /\ isLocked = FALSE
  /\ kdf = 0
  /\ kdfKey = None
  /\ defaultKeyLifetime = 10
  /\ lockWalletAtTime = 0
  /\ addrMap = <<>>
  /\ linearAddr160List = <<>>
  /\ chainIndexMap = <<>>
  /\ lastComputedChainIndex = 0
  /\ lastComputedChainAddr160 = 0
  /\ highestUsedChainIndex = 0
  /\ labelName = 0
  /\ labelDescr = 0
  /\ commentsMap = <<>>
  /\ commentLocs = <<>>
  /\ now = 0
  /\ lastOp = "__init__"
  /\ raised = "none"
  /\ suFailed = "none"
  /\ leaked = {}
  /\ calledFromBDM = FALSE
  /\ fpath = <<>>

\* line 179: self.walletPath = ''
InitWallet == InitObject /\ walletPath = <<>>

-----------------------------------------------------------------------------
(* The filesystem, one effect at a time (SpecFS) *)

touchFile(path) == exists' = exists \cup {path}
removeFile(path) == exists' = exists \ {path}
\* shutil.copy(src, dst)
copyFile(src, dst) ==
  /\ data' = [data EXCEPT ![dst] = data[src]]
  /\ exists' = exists \cup {dst}

\* the cells createNewWallet writes in SpecFS: the header and the first address
NewFileData == <<0, 0>>

\* the update entries SpecFS draws from
FsEntries ==
  {[modType |-> WLT_UPDATE_ADD, dtype |-> WLT_DATATYPE_ADDRCOMMENT, hash |-> 7,
    payload |-> <<>>],
   [modType |-> WLT_UPDATE_ADD, dtype |-> WLT_DATATYPE_OPEVAL, hash |-> 7,
    payload |-> <<>>],
   [modType |-> WLT_UPDATE_MODIFY, loc |-> 0, bytes |-> <<1>>],
   [modType |-> WLT_UPDATE_MODIFY, loc |-> 0, bytes |-> <<2>>],
   [modType |-> WLT_UPDATE_MODIFY, loc |-> 1, bytes |-> <<1>>]}

FsUpdateLists ==
  UNION {[1..n -> FsEntries] : n \in 0..MaxUpd}

InitFiles ==
  /\ exists = {}
  /\ data = [f \in {"P", "B"} |-> <<>>]
  /\ pc = "noWallet"
  /\ ccRet = "none"
  /\ updateList = <<>>
  /\ modIdx = 0
  /\ suRet = "none"
  /\ skipBackupFile = FALSE
  /\ wltCreated = FALSE
  /\ crashAt = "none"
  /\ ioError = "none"
  /\ preData = <<>>

InitFS == InitFiles /\ InitWallet

\* createNewWallet, line 786: open(self.walletPath, 'wb')
CreateOpen ==
  /\ pc = "noWallet"
  /\ \E skip \in BOOLEAN : skipBackupFile' = skip
  /\ exists' = exists \cup {"P"}
  /\ data' = [data EXCEPT !["P"] = <<>>]
  /\ pc' = "create_write"
  /\ UNCHANGED <<ccRet, updateList, modIdx, suRet, wltCreated, crashAt, ioError, preData>>
  /\ UNCHANGED wltVars

\* createNewWallet, lines 815-816: newfile.write(...); newfile.close()
CreateWrite ==
  /\ pc = "create_write"
  /\ data' = [data EXCEPT !["P"] = NewFileData]
  /\ pc' = "create_copy"
  /\ UNCHANGED <<exists, ccRet, updateList, modIdx, suRet, skipBackupFile, wltCreated,
                 crashAt, ioError, preData>>
  /\ UNCHANGED wltVars

\* createNewWallet, lines 818-820
CreateCopy ==
  /\ pc = "create_copy"
  /\ IF skipBackupFile THEN UNCHANGED <<data, exists>> ELSE copyFile("P", "B")
  /\ wltCreated' = TRUE
  /\ pc' = "idle"
  /\ UNCHANGED <<ccRet, updateList, modIdx, suRet, skipBackupFile, crashAt, ioError,
                 preData>>
  /\ UNCHANGED wltVars

\* walletFileSafeUpdate, lines 2037-2044
SU_Call ==
  /\ pc = "idle"
  /\ "P" \in exists
  /\ \E updList \in FsUpdateLists :
       /\ Len(data["P"]) + Len(binaryToAppend(updList)) <= MaxFileLen
       /\ updateList' = updList
       /\ IF Len(updList) = 0
          THEN /\ suRet' = "empty"
               /\ UNCHANGED <<pc, ccRet>>
          ELSE /\ suRet' = "none"
               /\ pc' = "cc_start"
               /\ ccRet' = "su"
  /\ preData' = data["P"]
  /\ crashAt' = "none"
  /\ ioError' = "none"
  /\ modIdx' = 0
  /\ UNCHANGED <<exists, data, skipBackupFile, wltCreated>>
  /\ UNCHANGED wltVars

\* where doWalletFileConsistencyCheck goes when it returns: back into the safe
\* update, or on into readWalletFile, which cannot unpack an empty file
CCReturnPc ==
  IF ccRet = "su" THEN "su_parse"
  ELSE IF data["P"] = <<>> THEN "unreadable" ELSE "idle"

fsGhost == <<updateList, modIdx, suRet, skipBackupFile, wltCreated, crashAt, ioError,
             preData>>

\* doWalletFileConsistencyCheck, lines 2190-2193
CC_Start ==
  /\ pc = "cc_start"
  /\ IF "B" \notin exists
     THEN /\ touchFile("BUF")
          /\ pc' = "cc_nb_copy"
     ELSE /\ pc' = "cc_flags"
          /\ UNCHANGED exists
  /\ UNCHANGED <<data, ccRet, fsGhost>>
  /\ UNCHANGED wltVars

\* line 2194
CC_NoBackupCopy ==
  /\ pc = "cc_nb_copy"
  /\ copyFile("P", "B")
  /\ pc' = "cc_nb_rm"
  /\ UNCHANGED <<ccRet, fsGhost>>
  /\ UNCHANGED wltVars

\* line 2195
CC_NoBackupRemove ==
  /\ pc = "cc_nb_rm"
  /\ removeFile("BUF")
  /\ pc' = "cc_flags"
  /\ UNCHANGED <<data, ccRet, fsGhost>>
  /\ UNCHANGED wltVars

\* CC_Flags taking the wallet file as the good copy when only MUF exists
CC_Flags_MainCopiesForward ==
  /\ pc = "cc_flags"
  /\ IF "BUF" \in exists \/ "MUF" \in exists
     THEN /\ copyFile("P", "B")
          /\ pc' = IF "MUF" \in exists /\ "BUF" \in exists THEN "cc_both_rm"
                   ELSE IF "MUF" \in exists THEN "cc_main_rm" ELSE "cc_backup_rm"
     ELSE /\ pc' = CCReturnPc
          /\ UNCHANGED <<data, exists>>
  /\ UNCHANGED <<ccRet, fsGhost>>
  /\ UNCHANGED wltVars

\* CC_Flags restoring the wallet file from the backup when both flags exist
CC_Flags_BothRestores ==
  /\ pc = "cc_flags"
  /\ IF "BUF" \in exists /\ "MUF" \in exists
     THEN /\ copyFile("B", "P")
          /\ pc' = "cc_both_rm"
     ELSE IF "MUF" \in exists
     THEN /\ copyFile("B", "P")
          /\ pc' = "cc_main_rm"
     ELSE IF "BUF" \in exists
     THEN /\ copyFile("P", "B")
          /\ pc' = "cc_backup_rm"
     ELSE /\ pc' = CCReturnPc
          /\ UNCHANGED <<data, exists>>
  /\ UNCHANGED <<ccRet, fsGhost>>
  /\ UNCHANGED wltVars

\* lines 2197-2200, 2203-2206, 2208-2210: the branch and its copy
CC_Flags ==
  /\ pc = "cc_flags"
  /\ IF "BUF" \in exists /\ "MUF" \in exists
     THEN /\ copyFile("P", "B")
          /\ pc' = "cc_both_rm"
     ELSE IF "MUF" \in exists
     THEN /\ copyFile("B", "P")
          /\ pc' = "cc_main_rm"
     ELSE IF "BUF" \in exists
     THEN /\ copyFile("P", "B")
          /\ pc' = "cc_backup_rm"
     ELSE /\ pc' = CCReturnPc
          /\ UNCHANGED <<data, exists>>
  /\ UNCHANGED <<ccRet, fsGhost>>
  /\ UNCHANGED wltVars

\* line 2201
CC_BothRemoveMain ==
  /\ pc = "cc_both_rm"
  /\ removeFile("MUF")
  /\ pc' = "cc_backup_rm"
  /\ UNCHANGED <<data, ccRet, fsGhost>>
  /\ UNCHANGED wltVars

\* line 2207
CC_MainRemove ==
  /\ pc = "cc_main_rm"
  /\ removeFile("MUF")
  /\ pc' = CCReturnPc
  /\ UNCHANGED <<data, ccRet, fsGhost>>
  /\ UNCHANGED wltVars

\* lines 2202 and 2211
CC_BackupRemove ==
  /\ pc = "cc_backup_rm"
  /\ removeFile("BUF")
  /\ pc' = CCReturnPc
  /\ UNCHANGED <<data, ccRet, fsGhost>>
  /\ UNCHANGED wltVars

suGhost == <<ccRet, updateList, skipBackupFile, wltCreated, crashAt, preData>>

\* lines 2057-2091 on an updateList the parsing loop raises on
SU_BadInput ==
  /\ pc = "su_parse"
  /\ BadInput(updateList)
  /\ suRet' = "empty"
  /\ pc' = "idle"
  /\ UNCHANGED <<exists, data, modIdx, ioError, suGhost>>
  /\ UNCHANGED wltVars

\* SU_TouchMain without its flag file
SU_TouchMain_NoFlag ==
  /\ pc = "su_parse"
  /\ ~BadInput(updateList)
  /\ pc' = "su_appendP"
  /\ UNCHANGED <<exists, data, modIdx, suRet, ioError, suGhost>>
  /\ UNCHANGED wltVars

\* line 2097
SU_TouchMain ==
  /\ pc = "su_parse"
  /\ ~BadInput(updateList)
  /\ touchFile("MUF")
  /\ pc' = "su_appendP"
  /\ UNCHANGED <<data, modIdx, suRet, ioError, suGhost>>
  /\ UNCHANGED wltVars

\* lines 2100-2102
SU_AppendMain ==
  /\ pc = "su_appendP"
  /\ data' = [data EXCEPT !["P"] = @ \o binaryToAppend(updateList)]
  /\ modIdx' = 1
  /\ pc' = IF dataToChange(updateList) = <<>> THEN "su_touchBUF" ELSE "su_modP"
  /\ UNCHANGED <<exists, suRet, ioError, suGhost>>
  /\ UNCHANGED wltVars

\* SU_ModifyMain taking the changes last to first
SU_ModifyMain_Reversed ==
  /\ pc = "su_modP"
  /\ LET chg == dataToChange(updateList)[Len(dataToChange(updateList)) - modIdx + 1]
     IN data' = [data EXCEPT !["P"] = SeekWrite(@, chg.loc, chg.bytes)]
  /\ modIdx' = modIdx + 1
  /\ pc' = IF modIdx = Len(dataToChange(updateList)) THEN "su_touchBUF" ELSE "su_modP"
  /\ UNCHANGED <<exists, suRet, ioError, suGhost>>
  /\ UNCHANGED wltVars

\* lines 2108-2110, one turn of the loop
SU_ModifyMain ==
  /\ pc = "su_modP"
  /\ LET chg == dataToChange(updateList)[modIdx]
     IN data' = [data EXCEPT !["P"] = SeekWrite(@, chg.loc, chg.bytes)]
  /\ modIdx' = modIdx + 1
  /\ pc' = IF modIdx = Len(dataToChange(updateList)) THEN "su_touchBUF" ELSE "su_modP"
  /\ UNCHANGED <<exists, suRet, ioError, suGhost>>
  /\ UNCHANGED wltVars

\* line 2113: an IOError raised by a write to the wallet file
SU_MainIOError ==
  /\ pc \in {"su_appendP", "su_modP"}
  /\ ioError' = "main"
  /\ pc' = "su_main_restore"
  /\ UNCHANGED <<exists, data, modIdx, suRet, suGhost>>
  /\ UNCHANGED wltVars

\* line 2115
SU_MainRestore ==
  /\ pc = "su_main_restore"
  /\ copyFile("B", "P")
  /\ pc' = "su_main_restore_rm"
  /\ UNCHANGED <<modIdx, suRet, ioError, suGhost>>
  /\ UNCHANGED wltVars

\* lines 2116-2117
SU_MainRestoreRemove ==
  /\ pc = "su_main_restore_rm"
  /\ removeFile("MUF")
  /\ suRet' = "empty"
  /\ pc' = "idle"
  /\ UNCHANGED <<data, modIdx, ioError, suGhost>>
  /\ UNCHANGED wltVars

\* SU_TouchBackup without its flag file
SU_TouchBackup_NoFlag ==
  /\ pc = "su_touchBUF"
  /\ pc' = "su_rmMUF"
  /\ UNCHANGED <<exists, data, modIdx, suRet, ioError, suGhost>>
  /\ UNCHANGED wltVars

\* line 2121
SU_TouchBackup ==
  /\ pc = "su_touchBUF"
  /\ touchFile("BUF")
  /\ pc' = "su_rmMUF"
  /\ UNCHANGED <<data, modIdx, suRet, ioError, suGhost>>
  /\ UNCHANGED wltVars

\* line 2126
SU_RemoveMain ==
  /\ pc = "su_rmMUF"
  /\ removeFile("MUF")
  /\ pc' = "su_appendB"
  /\ UNCHANGED <<data, modIdx, suRet, ioError, suGhost>>
  /\ UNCHANGED wltVars

\* lines 2133-2135
SU_AppendBackup ==
  /\ pc = "su_appendB"
  /\ data' = [data EXCEPT !["B"] = @ \o binaryToAppend(updateList)]
  /\ modIdx' = 1
  /\ pc' = IF dataToChange(updateList) = <<>> THEN "su_rmBUF" ELSE "su_modB"
  /\ UNCHANGED <<exists, suRet, ioError, suGhost>>
  /\ UNCHANGED wltVars

\* lines 2138-2140, one turn of the loop
SU_ModifyBackup ==
  /\ pc = "su_modB"
  /\ LET chg == dataToChange(updateList)[modIdx]
     IN data' = [data EXCEPT !["B"] = SeekWrite(@, chg.loc, chg.bytes)]
  /\ modIdx' = modIdx + 1
  /\ pc' = IF modIdx = Len(dataToChange(updateList)) THEN "su_rmBUF" ELSE "su_modB"
  /\ UNCHANGED <<exists, suRet, ioError, suGhost>>
  /\ UNCHANGED wltVars

\* line 2143: an IOError raised by a write to the backup
SU_BackupIOError ==
  /\ pc \in {"su_appendB", "su_modB"}
  /\ ioError' = "backup"
  /\ pc' = "su_backup_restore"
  /\ UNCHANGED <<exists, data, modIdx, suRet, suGhost>>
  /\ UNCHANGED wltVars

\* line 2145
SU_BackupRestore ==
  /\ pc = "su_backup_restore"
  /\ copyFile("P", "B")
  /\ pc' = "su_backup_restore_rm"
  /\ UNCHANGED <<modIdx, suRet, ioError, suGhost>>
  /\ UNCHANGED wltVars

\* lines 2146-2147: os.remove raises OSError on a path that does not exist
SU_BackupRestoreRemove ==
  /\ pc = "su_backup_restore_rm"
  /\ IF "MUF" \in exists
     THEN /\ removeFile("MUF")
          /\ suRet' = "empty"
     ELSE /\ suRet' = "raised"
          /\ UNCHANGED exists
  /\ pc' = "idle"
  /\ UNCHANGED <<data, modIdx, ioError, suGhost>>
  /\ UNCHANGED wltVars

\* lines 2149-2151
SU_RemoveBackup ==
  /\ pc = "su_rmBUF"
  /\ removeFile("BUF")
  /\ suRet' = "ok"
  /\ pc' = "idle"
  /\ UNCHANGED <<data, modIdx, ioError, suGhost>>
  /\ UNCHANGED wltVars

\* doWalletFileConsistencyCheck is running for readWalletFile after a crash
InRecovery ==
  /\ ccRet = "open"
  /\ pc \in {"cc_start", "cc_nb_copy", "cc_nb_rm", "cc_flags", "cc_both_rm",
             "cc_main_rm", "cc_backup_rm"}

\* the process stops between two filesystem effects (power loss, or one of the
\* InterruptTestErrors of lines 2105, 2124, 2131 leaving the method)
Crash ==
  /\ pc \notin {"noWallet", "crashed", "unreadable"}
  /\ crashAt' = IF InRecovery THEN crashAt ELSE pc
  /\ pc' = "crashed"
  /\ suRet' = "none"
  /\ ioError' = "none"
  /\ UNCHANGED <<exists, data, ccRet, updateList, modIdx, skipBackupFile, wltCreated,
                 preData>>
  /\ UNCHANGED wltVars

\* readWalletFile, lines 1904-1912
Open ==
  /\ pc = "crashed"
  /\ "P" \in exists
  /\ ccRet' = "open"
  /\ pc' = "cc_start"
  /\ UNCHANGED <<exists, data, updateList, modIdx, suRet, skipBackupFile, wltCreated,
                 crashAt, ioError, preData>>
  /\ UNCHANGED wltVars

NextFS ==
  \/ CreateOpen \/ CreateWrite \/ CreateCopy
  \/ SU_Call
  \/ CC_Start \/ CC_NoBackupCopy \/ CC_NoBackupRemove \/ CC_Flags
  \/ CC_BothRemoveMain \/ CC_MainRemove \/ CC_BackupRemove
  \/ SU_BadInput \/ SU_TouchMain \/ SU_AppendMain \/ SU_ModifyMain
  \/ SU_MainIOError \/ SU_MainRestore \/ SU_MainRestoreRemove
  \/ SU_TouchBackup \/ SU_RemoveMain \/ SU_AppendBackup \/ SU_ModifyBackup
  \/ SU_BackupIOError \/ SU_BackupRestore \/ SU_BackupRestoreRemove
  \/ SU_RemoveBackup
  \/ Crash \/ Open

SpecFS == InitFS /\ [][NextFS]_vars

-----------------------------------------------------------------------------
(* The wallet's methods, as functions of the wallet object and its files *)

\* CLI_OPTIONS.keypool, the size of the address pool
addrPoolSize == 2
\* the highest chain index the wallet may compute
MaxChainIndex == 3
\* a crash strikes a safe update after at most MaxCrashStep of its effects: the
\* two appends, the sentinels and a change of both files for the flags, the
\* root and every address
MaxCrashStep == 2 * (MaxChainIndex + 3) + 4
\* an injected I/O error strikes one of the first MaxFaultAt safe updates of a call
MaxFaultAt == 2
\* the labels a caller may set; 0 is the empty string
NumLabels == 1
\* the bytes a comment may hold; a comment is one cell or empty
NumComments == 1
\* RightNow() runs from 0 to MaxTime
MaxTime == 3
\* the key lifetimes a caller may ask for
MaxLifetime == 2

\* the header's cells, as packHeader lays them out: file id and version, magic
\* bytes, flags, unique id, short label, long label, highest used index, KDF
\* parameters, crypto parameters, root address, reserved kilobyte
offsetWltFlags == 2
offsetLabelName == 4
offsetLabelDescr == 5
offsetTopUsed == 6
offsetKdfParams == 7
offsetCrypto == 8
offsetRootAddr == 9
HeaderSize == offsetRootAddr + 2
\* the header and one entry per chain index, or fewer of these and an imported
\* address or comments, for which it leaves two cells more
MaxWalletFileLen == HeaderSize + 3 * (MaxChainIndex + 1) + 2
\* UINT32_MAX, cut to the largest integer TLC holds; readWalletFile only needs
\* its negation to lie below every chain index
UINT32_MAX == 2147483647

\* the widths, in cells, of an address record, of a 20-byte hash and of the
\* 2-byte length of a comment or of a deleted entry
pybtcaddrSize == 1
HashWidth == 1
LenWidth == 1
\* a hash of more than 20 bytes is a transaction's
TxHash == 100
\* chainIndex of an imported address
IMPORTED == -2
\* the one private key a caller may import
ImportKey == 1
\* a public key and an address hash that belong to no key of the model
OtherPubKey == 60
OtherAddr20 == 7

\* the blockchain and the network this engine is configured for, and the
\* network byte that ends a wallet's unique id
MAGIC_BYTES == 1
ADDRBYTE == 0
UniqueID(networkByte, first160) == networkByte * 100 + first160
NetworkByte(uniqueIDBin) == uniqueIDBin \div 100
\* the header's first cells: file id and version, magic bytes, flags, unique id
offsetMagic == 1
offsetUniqueID == 3
\* a type byte that is none of WLT_DATATYPE_*
UnknownType == 9
\* the entries from elsewhere a wallet file may hold
MaxOtherEntries == 2

\* the start of an address record inside its entry: "+ 21" skips the type byte
\* and the 20-byte hash
KeyDataLoc(entryStart) == entryStart + 2

NoFault == [kind |-> "none", at |-> 0]
\* no fault, or one within the first n safe updates of a call
FaultsWithin(n) ==
  {NoFault} \cup {[kind |-> k, at |-> i] : k \in {"main", "backup"}, i \in 1..n}

\* the wallet object and its files as a method finds them; updates collects the
\* update lists the call hands to walletFileSafeUpdate, registered the addresses
\* it hands to TheBDM.registerImportedScrAddr, entriesFrom the position where
\* readWalletFile starts to read entries (-1: it reads none); garbled tells
\* whether bytes that are no entries make the reader of entries raise; bdm
\* collects the calls of TheBDM's methods the call makes, each with its
\* argument and whether it is a _bdm_direct method; doRegister is the argument
\* a caller of computeNextAddress or fillAddressPool may give, and bdmState
\* what TheBDM.getBDMState() returns during the call
Self(op, fault) ==
  [exists |-> exists, data |-> data,
   useEncryption |-> useEncryption, isLocked |-> isLocked, kdf |-> kdf,
   kdfKey |-> kdfKey, defaultKeyLifetime |-> defaultKeyLifetime,
   lockWalletAtTime |-> lockWalletAtTime, addrMap |-> addrMap,
   linearAddr160List |-> linearAddr160List, chainIndexMap |-> chainIndexMap,
   lastComputedChainIndex |-> lastComputedChainIndex,
   lastComputedChainAddr160 |-> lastComputedChainAddr160,
   highestUsedChainIndex |-> highestUsedChainIndex,
   labelName |-> labelName, labelDescr |-> labelDescr,
   commentsMap |-> commentsMap, commentLocs |-> commentLocs,
   now |-> now, lastOp |-> op, raised |-> "none", suFailed |-> "none",
   leaked |-> {}, ret |-> <<>>, fault |-> fault, updates |-> <<>>,
   registered |-> <<>>, entriesFrom |-> -1, garbled |-> FALSE,
   calledFromBDM |-> calledFromBDM, bdm |-> <<>>, doRegister |-> TRUE,
   bdmState |-> "Offline", crashStep |-> -1, unlockPass |-> <<>>]

\* TheBDM.<call>(arg) through the thread queue, TheBDM.<call>_bdm_direct(arg)
\* when direct
BdmCall(s, call, arg, direct) ==
  [s EXCEPT !.bdm = Append(@, [call |-> call, arg |-> arg, direct |-> direct])]

Raise(s, e) == [s EXCEPT !.raised = e]
Failed(s) == s.raised # "none"
\* x = v; F(x): v is computed once
Bind(v, F(_)) == CHOOSE r \in {F(x) : x \in {v}} : TRUE
\* the next statement runs unless an exception is on its way out
Then(v, Op(_)) == Bind(v, LAMBDA s : IF Failed(s) THEN s ELSE Op(s))

\* d[k] = v
Put(d, k, v) == [x \in DOMAIN d \cup {k} |-> IF x = k THEN v ELSE d[x]]

Add(dtype, hash, payload) ==
  [modType |-> WLT_UPDATE_ADD, dtype |-> dtype, hash |-> hash, payload |-> payload]
Modify(loc, bytes) == [modType |-> WLT_UPDATE_MODIFY, loc |-> loc, bytes |-> bytes]

\* a local key leaves its function alive
Leak(s, name, k) == IF k.obj /\ k.val # 0 THEN [s EXCEPT !.leaked = @ \cup {name}] ELSE s

\* doWalletFileConsistencyCheck, lines 2190-2211, on fs = [exists, data]
doWalletFileConsistencyCheck(fs) ==
  LET f == IF "B" \notin fs.exists
           THEN [exists |-> fs.exists \cup {"B"},
                 data |-> [fs.data EXCEPT !["B"] = fs.data["P"]]]
           ELSE fs
  IN IF "BUF" \in f.exists /\ "MUF" \in f.exists
     THEN [exists |-> f.exists \ {"MUF", "BUF"},
           data |-> [f.data EXCEPT !["B"] = f.data["P"]]]
     ELSE IF "MUF" \in f.exists
     THEN [exists |-> f.exists \ {"MUF"}, data |-> [f.data EXCEPT !["P"] = f.data["B"]]]
     ELSE IF "BUF" \in f.exists
     THEN [exists |-> f.exists \ {"BUF"}, data |-> [f.data EXCEPT !["B"] = f.data["P"]]]
     ELSE f

\* the files a crash leaves inside walletFileSafeUpdate(updList), lines 2097-2149,
\* after `step` of its effects on the checked files fs: touch MUF, append to the
\* wallet file, each change of the wallet file, touch BUF, remove MUF, append
\* to the backup, each change of the backup
CrashFiles(fs, updList, step) ==
  LET chg == dataToChange(updList)
      n == Len(chg)
      mainApp == fs.data["P"] \o binaryToAppend(updList)
      backApp == fs.data["B"] \o binaryToAppend(updList)
  IN IF step = 0 THEN [exists |-> fs.exists \cup {"MUF"}, data |-> fs.data]
     ELSE IF step <= n + 1
     THEN [exists |-> fs.exists \cup {"MUF"},
           data |-> [fs.data EXCEPT !["P"] = WriteAll(mainApp, SubSeq(chg, 1, step - 1))]]
     ELSE IF step = n + 2
     THEN [exists |-> fs.exists \cup {"MUF", "BUF"},
           data |-> [fs.data EXCEPT !["P"] = WriteAll(mainApp, chg)]]
     ELSE IF step = n + 3
     THEN [exists |-> fs.exists \cup {"BUF"},
           data |-> [fs.data EXCEPT !["P"] = WriteAll(mainApp, chg)]]
     ELSE [exists |-> fs.exists \cup {"BUF"},
           data |-> [P |-> WriteAll(mainApp, chg),
                     B |-> WriteAll(backApp, SubSeq(chg, 1, step - n - 4))]]

\* the last effect a crash can follow: the change before the one whose seek
\* fails, or the last change of the backup
LastCrashStep(updList) ==
  LET chg == dataToChange(updList)
      bad == {i \in 1..Len(chg) : chg[i].loc < 0}
  IN IF bad = {} THEN 2 * Len(chg) + 4
     ELSE CHOOSE i \in bad : \A j \in bad : i <= j

\* walletFileSafeUpdate as one step.  s.fault injects an IOError into the write
\* of the wallet file ("main") or of the backup ("backup") of the s.fault.at-th
\* update; seek() raises IOError on a negative offset.
walletFileSafeUpdate(s, updList) ==
  IF "P" \notin s.exists
  THEN [s EXCEPT !.raised = "FileExistsError", !.suFailed = "raised"]
  ELSE IF Len(updList) = 0 THEN [s EXCEPT !.ret = <<>>]
  ELSE
    LET fs == doWalletFileConsistencyCheck([exists |-> s.exists, data |-> s.data])
        c == [s EXCEPT !.exists = fs.exists, !.data = fs.data,
                       !.updates = Append(@, updList)]
        fire == s.fault.kind # "none" /\ s.fault.at = 1
        seekFails == \E i \in 1..Len(updList) :
                        /\ updList[i].modType = WLT_UPDATE_MODIFY
                        /\ updList[i].loc < 0
        newMain == ApplyUpdate(fs.data["P"], updList)
    IN IF BadInput(updList)
       THEN [c EXCEPT !.ret = <<>>, !.suFailed = "empty"]
       ELSE IF s.crashStep >= 0 /\ s.crashStep <= LastCrashStep(updList)
       THEN Bind(CrashFiles(fs, updList, s.crashStep), LAMBDA left :
              [c EXCEPT !.exists = left.exists, !.data = left.data,
                        !.raised = "Crash", !.suFailed = "raised"])
       ELSE IF seekFails
       THEN [c EXCEPT !.data["P"] = fs.data["B"], !.ret = <<>>, !.suFailed = "empty"]
       ELSE IF fire /\ s.fault.kind = "main"
       THEN [c EXCEPT !.data["P"] = fs.data["B"], !.ret = <<>>, !.suFailed = "empty",
                      !.fault = NoFault]
       ELSE IF fire /\ s.fault.kind = "backup"
       THEN [c EXCEPT !.data = [P |-> newMain, B |-> newMain],
                      !.exists = @ \cup {"BUF"}, !.raised = "OSError",
                      !.suFailed = "raised", !.fault = NoFault]
       ELSE [c EXCEPT !.data = [P |-> newMain, B |-> ApplyUpdate(fs.data["B"], updList)],
                      !.ret = updateLocations(updList, Len(fs.data["P"])),
                      !.fault = IF @.kind = "none" THEN @ ELSE [@ EXCEPT !.at = @ - 1]]

\* packWalletFlags: bit 0 is useEncryption, bit 1 watchingOnly (never set here)
packWalletFlags(usesEncryption) == Bit(usesEncryption)

\* createChangeFlagsEntry with self.useEncryption = usesEncryption
createChangeFlagsEntry(usesEncryption) ==
  Modify(offsetWltFlags, <<packWalletFlags(usesEncryption)>>)

\* packHeader, lines 1750-1790
packHeader(s) ==
  <<1, MAGIC_BYTES, packWalletFlags(s.useEncryption),
    UniqueID(ADDRBYTE, s.linearAddr160List[1]), s.labelName,
    s.labelDescr, s.highestUsedChainIndex, s.kdf, 0, serialize(s.addrMap[ROOT]), 0>>

verifyEncryptionKey(s, secureKdfOutput) ==
  PyBtcAddress_verifyEncryptionKey(s.addrMap[ROOT], secureKdfOutput)

\* verifyPassphrase, lines 1351-1356; None has no DeriveKey
verifyPassphrase(s, securePassphrase) ==
  IF s.kdf = 0 THEN Raise(s, "AttributeError")
  ELSE LET kdfOutput == DeriveKey(s.kdf, securePassphrase)
           isValid == verifyEncryptionKey(s, kdfOutput)
       IN Leak([s EXCEPT !.ret = isValid], "verifyPassphrase.kdfOutput",
               destroy(kdfOutput))

\* computeNextAddress, lines 887-921
\* computeNextAddress registering the new address whatever doRegister is
registerNew_Always(s, new160) ==
  BdmCall(s, "registerScrAddr", new160, s.calledFromBDM)

\* computeNextAddress, lines 913-919
registerNew(s, new160) ==
  IF s.doRegister THEN BdmCall(s, "registerScrAddr", new160, s.calledFromBDM) ELSE s

\* computeNextAddress, lines 887-921, from the tip or from addr160; the argument
\* doRegister is s.doRegister
computeNextAddress(s, addr160) ==
  Bind(PyBtcAddress_extendAddressChain(s.addrMap[addr160], s.kdfKey), LAMBDA ext :
    LET newAddr == ext.addr
        new160 == getAddr160(newAddr)
        isLast == newAddr.chainIndex > s.lastComputedChainIndex
    IN IF ext.err # "none"
       THEN Raise([s EXCEPT !.addrMap[addr160] = ext.parent], ext.err)
       ELSE Then(walletFileSafeUpdate(
                   [s EXCEPT !.addrMap[addr160] = ext.parent],
                   <<Add(WLT_DATATYPE_KEYDATA, new160, serialize(newAddr))>>),
                 LAMBDA s1 :
         IF s1.ret = <<>>
         THEN Raise([s1 EXCEPT !.addrMap = Put(@, new160, newAddr)], "IndexError")
         ELSE Bind([s1 EXCEPT
                 !.addrMap = Put(@, new160,
                                 [newAddr EXCEPT !.walletByteLoc = KeyDataLoc(s1.ret[1])]),
                 !.lastComputedChainAddr160 = IF isLast THEN new160 ELSE @,
                 !.lastComputedChainIndex = IF isLast THEN newAddr.chainIndex ELSE @,
                 !.linearAddr160List = Append(@, new160),
                 !.chainIndexMap = Put(@, newAddr.chainIndex, new160),
                 !.ret = new160],
                LAMBDA s2 : registerNew(s2, new160))))

\* fillAddressPool_, lines 956-960: the loop
RECURSIVE computeNextAddresses(_, _)
computeNextAddresses(s, numToCreate) ==
  IF numToCreate = 0 THEN s
  ELSE Then(computeNextAddress(s, s.lastComputedChainAddr160),
            LAMBDA t : computeNextAddresses(t, numToCreate - 1))

\* fillAddressPool_ making numPool addresses whatever the pool holds
fillAddressPool_IgnoringGap(s, numPool) ==
  LET pool == IF numPool = 0 THEN addrPoolSize ELSE numPool
  IN Then(computeNextAddresses(s, pool),
          LAMBDA t : [t EXCEPT !.ret = t.lastComputedChainIndex])

\* fillAddressPool_, lines 951-962; numPool = 0 stands for None
fillAddressPool(s, numPool) ==
  LET pool == IF numPool = 0 THEN addrPoolSize ELSE numPool
      gap == s.lastComputedChainIndex - s.highestUsedChainIndex
  IN Then(computeNextAddresses(s, Max(pool - gap, 0)),
          LAMBDA t : [t EXCEPT !.ret = t.lastComputedChainIndex])

\* advanceHighestIndex leaving the pool as it is
advanceHighestIndex_NoFill(s, ct) ==
  LET topIndex == Max(Min(s.highestUsedChainIndex + ct, s.lastComputedChainIndex), 0)
  IN walletFileSafeUpdate([s EXCEPT !.highestUsedChainIndex = topIndex],
                          <<Modify(offsetTopUsed, <<topIndex>>)>>)

\* advanceHighestIndex without the lower clamp
advanceHighestIndex_NoClamp(s, ct) ==
  LET topIndex == Min(s.highestUsedChainIndex + ct, s.lastComputedChainIndex)
  IN Then(walletFileSafeUpdate([s EXCEPT !.highestUsedChainIndex = topIndex],
                               <<Modify(offsetTopUsed, <<topIndex>>)>>),
          LAMBDA t : fillAddressPool(t, 0))

\* advanceHighestIndex, lines 840-847
advanceHighestIndex(s, ct) ==
  LET topIndex == Max(Min(s.highestUsedChainIndex + ct, s.lastComputedChainIndex), 0)
  IN Then(walletFileSafeUpdate([s EXCEPT !.highestUsedChainIndex = topIndex],
                               <<Modify(offsetTopUsed, <<topIndex>>)>>),
          LAMBDA t : fillAddressPool(t, 0))

\* getAddress160ByChainIndex, lines 2877-2880: the loop
RECURSIVE extendUntil(_, _, _, _)
extendUntil(s, extend160, desiredIdx, turns) ==
  IF turns = 0 THEN s
  ELSE Then(computeNextAddress(s, extend160), LAMBDA s1 :
         IF desiredIdx = s1.addrMap[s1.ret].chainIndex
         THEN [s1 EXCEPT !.ret = s1.chainIndexMap[desiredIdx]]
         ELSE extendUntil(s1, s1.ret, desiredIdx, turns - 1))

\* getAddress160ByChainIndex, lines 2858-2880
getAddress160ByChainIndex(s, desiredIdx) ==
  LET known == {idx \in DOMAIN s.chainIndexMap : 0 < idx /\ idx <= desiredIdx}
      closestIdx == IF known = {} THEN 0
                    ELSE CHOOSE idx \in known : \A other \in known : other <= idx
  IN IF desiredIdx > s.lastComputedChainIndex \/ desiredIdx < 0
     THEN Raise(s, "WalletAddressError")
     ELSE IF desiredIdx \in DOMAIN s.chainIndexMap
     THEN [s EXCEPT !.ret = s.chainIndexMap[desiredIdx]]
     ELSE IF closestIdx \notin DOMAIN s.chainIndexMap THEN Raise(s, "KeyError")
     ELSE extendUntil(s, s.chainIndexMap[closestIdx], desiredIdx,
                      desiredIdx - closestIdx + 1)

\* getNextUnusedAddress handing out the highest used address once more
getNextUnusedAddress_NoAdvance(s) ==
  Then(IF s.lastComputedChainIndex - s.highestUsedChainIndex < Max(addrPoolSize - 1, 1)
       THEN fillAddressPool(s, addrPoolSize) ELSE s, LAMBDA s1 :
    Then(getAddress160ByChainIndex(s1, s1.highestUsedChainIndex), LAMBDA s3 :
      Then(walletFileSafeUpdate(s3,
             <<Modify(s3.addrMap[s3.ret].walletByteLoc,
                      <<serialize(s3.addrMap[s3.ret])>>)>>),
           LAMBDA s4 : [s4 EXCEPT !.ret = s3.ret])))

\* getNextUnusedAddress, lines 864-874
getNextUnusedAddress(s) ==
  Then(IF s.lastComputedChainIndex - s.highestUsedChainIndex < Max(addrPoolSize - 1, 1)
       THEN fillAddressPool(s, addrPoolSize) ELSE s, LAMBDA s1 :
    Then(advanceHighestIndex(s1, 1), LAMBDA s2 :
      Then(getAddress160ByChainIndex(s2, s2.highestUsedChainIndex), LAMBDA s3 :
        Then(walletFileSafeUpdate(s3,
               <<Modify(s3.addrMap[s3.ret].walletByteLoc,
                        <<serialize(s3.addrMap[s3.ret])>>)>>),
             LAMBDA s4 : [s4 EXCEPT !.ret = s3.ret]))))

\* the keys of addrMap in the order of sorted(..., key=chainIndex)
RECURSIVE sortedByChainIndex(_, _)
sortedByChainIndex(addrs, keys) ==
  IF keys = {} THEN <<>>
  ELSE LET h == CHOOSE x \in keys : \A y \in keys :
                  \/ addrs[x].chainIndex < addrs[y].chainIndex
                  \/ addrs[x].chainIndex = addrs[y].chainIndex /\ x <= y
       IN <<h>> \o sortedByChainIndex(addrs, keys \ {h})

\* unlock_, lines 2696-2720: the loop; prev is the key of addrObjPrev, -1 for None
RECURSIVE unlockAddrs(_, _, _)
unlockAddrs(s, order, prev) ==
  IF order = <<>> THEN s
  ELSE LET h == Head(order)
           addrObj == s.addrMap[h]
           needToSaveAddrAfterUnlock == addrObj.createPrivKeyNextUnlock
           fromPrev == /\ needToSaveAddrAfterUnlock
                       /\ prev # -1
                       /\ addrObj.chainIndex - s.addrMap[prev].chainIndex > 0
                       /\ s.addrMap[prev].chainIndex > -1
           fed == IF fromPrev
                  THEN [addrObj EXCEPT !.encKey = s.addrMap[prev].encKey]
                  ELSE addrObj
           next == IF addrObj.chainIndex > -1 THEN h ELSE prev
           \* what the pass finds at this address: whether its private key is
           \* still to be made, and whether the address before it in the chain
           \* has been unlocked already
           found == [addr160 |-> h, chainIndex |-> addrObj.chainIndex,
                     deferred |-> needToSaveAddrAfterUnlock,
                     prevReady |-> /\ prev # -1
                                   /\ s.addrMap[prev].chainIndex = addrObj.chainIndex - 1
                                   /\ hasPrivKey(s.addrMap[prev])
                                   /\ ~s.addrMap[prev].isLocked
                                   /\ ~s.addrMap[prev].createPrivKeyNextUnlock]
       IN Bind(PyBtcAddress_unlock(fed, s.kdfKey), LAMBDA u :
            IF u.err # "none" THEN Raise([s EXCEPT !.addrMap[h] = u.addr], u.err)
            ELSE Then(IF needToSaveAddrAfterUnlock
                      THEN walletFileSafeUpdate(
                             [s EXCEPT !.addrMap[h] = u.addr,
                                       !.unlockPass = Append(@, found)],
                             <<Modify(u.addr.walletByteLoc, <<serialize(u.addr)>>)>>)
                      ELSE [s EXCEPT !.addrMap[h] = u.addr,
                                     !.unlockPass = Append(@, found)],
                      LAMBDA t : unlockAddrs(t, Tail(order), next)))

\* unlock_ setting self.kdfKey before it verifies the key
unlock_KeyBeforeVerify(s, secureKdfOutput, securePassphrase, tempKeyLifetime) ==
  LET derived == ~secureKdfOutput.obj
      key == IF derived THEN DeriveKey(s.kdf, securePassphrase) ELSE secureKdfOutput
      lifetime == IF tempKeyLifetime = 0 THEN s.defaultKeyLifetime ELSE tempKeyLifetime
  IN IF ~secureKdfOutput.obj /\ securePassphrase = 0 THEN Raise(s, "PassphraseError")
     ELSE IF derived /\ s.kdf = 0 THEN Raise(s, "EncryptionError")
     ELSE IF ~verifyEncryptionKey(s, key)
     THEN Raise([s EXCEPT !.kdfKey = key], "PassphraseError")
     ELSE Then(unlockAddrs([s EXCEPT !.kdfKey = key, !.lockWalletAtTime = s.now + lifetime],
                           sortedByChainIndex(s.addrMap, DOMAIN s.addrMap), -1),
               LAMBDA t : [t EXCEPT !.isLocked = FALSE])

\* unlock_, lines 2664-2722
unlock_(s, secureKdfOutput, securePassphrase, tempKeyLifetime) ==
  LET derived == ~secureKdfOutput.obj
      key == IF derived THEN DeriveKey(s.kdf, securePassphrase) ELSE secureKdfOutput
      lifetime == IF tempKeyLifetime = 0 THEN s.defaultKeyLifetime ELSE tempKeyLifetime
  IN IF ~secureKdfOutput.obj /\ securePassphrase = 0 THEN Raise(s, "PassphraseError")
     ELSE IF derived /\ s.kdf = 0 THEN Raise(s, "EncryptionError")
     ELSE IF ~verifyEncryptionKey(s, key)
     THEN IF derived
          THEN Leak(Raise(s, "PassphraseError"), "unlock_.secureKdfOutput", key)
          ELSE Raise(s, "PassphraseError")
     ELSE Then(unlockAddrs([s EXCEPT !.kdfKey = key, !.lockWalletAtTime = s.now + lifetime],
                           sortedByChainIndex(s.addrMap, DOMAIN s.addrMap), -1),
               LAMBDA t : [t EXCEPT !.isLocked = FALSE])

\* unlock, lines 2637-2649
unlock(s, secureKdfOutput, securePassphrase, tempKeyLifetime) ==
  IF ~s.isLocked /\ ~s.useEncryption THEN s
  ELSE unlock_(s, secureKdfOutput, securePassphrase, tempKeyLifetime)

\* lock_, lines 2785-2791: the loop
RECURSIVE lockAddrs(_, _)
lockAddrs(s, keys) ==
  IF keys = {} THEN s
  ELSE LET h == CHOOSE x \in keys : \A y \in keys : x <= y
       IN Bind(PyBtcAddress_lock(s.addrMap[h], s.kdfKey), LAMBDA l :
            IF l.err # "none" THEN Raise(s, l.err)
            ELSE Bind([s EXCEPT !.addrMap[h] = l.addr],
                      LAMBDA t : lockAddrs(t, keys \ {h})))

\* lock_ refusing a wallet that is locked already
lock_RefusingLocked(s) ==
  IF s.isLocked THEN Raise(s, "WalletLockError")
  ELSE Then(lockAddrs(s, DOMAIN s.addrMap),
            LAMBDA t : [t EXCEPT !.kdfKey = None, !.isLocked = TRUE])

\* lock_, lines 2784-2801
lock_(s) ==
  Then(lockAddrs(s, DOMAIN s.addrMap),
       LAMBDA t : [t EXCEPT !.kdfKey = None, !.isLocked = TRUE])

\* lock, lines 2727-2745
lock(s) == lock_(s)

\* changeWalletEncryption_, lines 1537-1551: the loop over addrMap, whose order
\* decides nothing as every address has its own place in the file
RECURSIVE reEncrypt(_, _, _, _)
reEncrypt(addrs, order, oldKdfKey, newKdfKey) ==
  IF order = <<>> THEN [newAddrMap |-> <<>>, upd |-> <<>>, err |-> "none"]
  ELSE LET addr160 == Head(order)
           addr == addrs[addr160]
       IN Bind(PyBtcAddress_changeEncryptionKey(PyBtcAddress_enableKeyEncryption(addr),
                                                oldKdfKey, newKdfKey), LAMBDA c :
            IF c.err # "none"
            THEN [newAddrMap |-> <<>>, upd |-> <<>>, err |-> c.err]
            ELSE Bind(reEncrypt(addrs, Tail(order), oldKdfKey, newKdfKey), LAMBDA rest :
                   [newAddrMap |-> Put(rest.newAddrMap, addr160, c.addr),
                    upd |-> <<Modify(addr.walletByteLoc, <<serialize(c.addr)>>)>>
                              \o rest.upd,
                    err |-> rest.err]))

\* changeWalletEncryption_, lines 1488-1574; securePassphrase = 0 stands for None
changeWalletEncryption_(s, secureKdfOutput, securePassphrase, extraFileUpdates, kdfObj) ==
  LET oldUsedEncryption == s.useEncryption
      newUsesEncryption == securePassphrase # 0 \/ secureKdfOutput.obj
      oldKdfKey == IF oldUsedEncryption THEN s.kdfKey ELSE None
      derived == securePassphrase # 0
      newKdfKey == IF derived THEN DeriveKey(s.kdf, securePassphrase)
                   ELSE secureKdfOutput
      Leaks(t, old, new) ==
        Leak(IF derived THEN Leak(t, "changeWalletEncryption_.newKdfKey", new) ELSE t,
             "changeWalletEncryption_.oldKdfKey", old)
      \* the finally clause; aliased: self.kdfKey is the object newKdfKey, which
      \* unlock_ has assigned
      Finally(t, aliased) ==
        Leaks(IF aliased THEN [t EXCEPT !.kdfKey = destroy(@)] ELSE t,
              destroy(oldKdfKey), destroy(newKdfKey))
      flags == IF oldUsedEncryption # newUsesEncryption
               THEN <<createChangeFlagsEntry(newUsesEncryption)>> ELSE <<>>
  IN IF oldUsedEncryption /\ s.isLocked THEN Raise(s, "WalletLockError")
     ELSE IF oldUsedEncryption /\ ~s.kdfKey.obj THEN Raise(s, "AttributeError")
     ELSE IF newUsesEncryption /\ s.kdf = 0
     THEN Leaks(Raise(s, "EncryptionError"), oldKdfKey, None)
     ELSE IF oldUsedEncryption /\ newUsesEncryption /\ verifyEncryptionKey(s, newKdfKey)
     THEN Leaks(s, oldKdfKey, newKdfKey)
     ELSE
       Bind(reEncrypt(s.addrMap, sortedByChainIndex(s.addrMap, DOMAIN s.addrMap),
                      oldKdfKey, newKdfKey), LAMBDA re :
         IF re.err # "none" THEN Finally(Raise(s, re.err), FALSE)
         ELSE Bind(walletFileSafeUpdate(s, extraFileUpdates \o flags \o re.upd),
                   LAMBDA s1 :
           IF Failed(s1) THEN Finally(s1, FALSE)
           ELSE Bind([s1 EXCEPT !.addrMap = IF s1.ret # <<>> THEN re.newAddrMap ELSE @,
                                !.useEncryption = newUsesEncryption], LAMBDA s2 :
             IF ~newKdfKey.obj THEN Finally(s2, FALSE)
             ELSE Bind(lock_(s2), LAMBDA locked :
               IF Failed(locked) THEN Finally(locked, FALSE)
               ELSE Bind(unlock_(locked, newKdfKey, 0, 0),
                         LAMBDA s3 : Finally(s3, s3.kdfKey.obj))))))

\* changeWalletEncryption recording the encryption state asked for whatever
\* becomes of the call
changeWalletEncryption_FlagAnyway(s, secureKdfOutput, securePassphrase, extraFileUpdates, kdfObj) ==
  Bind(changeWalletEncryption_(s, secureKdfOutput, securePassphrase, extraFileUpdates,
                               kdfObj),
       LAMBDA r : [r EXCEPT !.useEncryption = securePassphrase # 0 \/ secureKdfOutput.obj])

\* changeWalletEncryption, lines 1453-1458
changeWalletEncryption(s, secureKdfOutput, securePassphrase, extraFileUpdates, kdfObj) ==
  changeWalletEncryption_(s, secureKdfOutput, securePassphrase, extraFileUpdates, kdfObj)

\* changeKdfParams, lines 1417-1445; newkdf stands for KdfRomix(mem, numIter, salt)
changeKdfParams(s, newkdf, securePassphrase) ==
  LET updList == <<Modify(offsetKdfParams, <<newkdf>>)>>
  IN Then(IF ~s.useEncryption THEN s
          ELSE IF securePassphrase = 0 THEN Raise(s, "WalletLockError")
          ELSE Then(verifyPassphrase(s, securePassphrase), LAMBDA v :
                 IF v.ret THEN v ELSE Raise(v, "PassphraseError")), LAMBDA checked :
       Then(IF ~checked.useEncryption THEN walletFileSafeUpdate(checked, updList)
            ELSE changeWalletEncryption(checked, None, securePassphrase, updList, newkdf),
            LAMBDA t : [t EXCEPT !.kdf = newkdf]))

\* setWalletLabels, lines 1699-1707
setWalletLabels(s, lshort, llong) ==
  walletFileSafeUpdate([s EXCEPT !.labelName = lshort, !.labelDescr = llong],
                       <<Modify(offsetLabelName, <<lshort>>),
                         Modify(offsetLabelDescr, <<llong>>)>>)

\* the KDF parameters computeSystemSpecificKdfParams finds on this system
computeSystemSpecificKdfParams == 1

\* createNewWallet, lines 709-836, with doRegisterWithBDM; securePassphrase = 0
\* stands for None
createNewWallet(s, withEncrypt, securePassphrase, kdfParams, skipBackup) ==
  LET key == IF withEncrypt THEN DeriveKey(kdfParams, securePassphrase) ELSE None
      made == createFromPlainKeyData(-1, withEncrypt)
      relocked == PyBtcAddress_unlock(PyBtcAddress_lock(made, key).addr, key).addr
  IN IF s.calledFromBDM THEN s
     ELSE IF withEncrypt /\ securePassphrase = 0 THEN Raise(s, "EncryptionError")
     ELSE
       Bind(PyBtcAddress_extendAddressChain(relocked, key), LAMBDA ext :
         LET rootAddr == [ext.parent EXCEPT !.walletByteLoc = offsetRootAddr]
             firstAddr == ext.addr
             first160 == getAddr160(firstAddr)
         IN Bind([s EXCEPT
                    !.kdf = IF withEncrypt THEN kdfParams ELSE @,
                    !.kdfKey = key,
                    !.useEncryption = withEncrypt,
                    !.addrMap =
                       Put(Put(@, ROOT, rootAddr), first160,
                           [firstAddr EXCEPT !.walletByteLoc = KeyDataLoc(HeaderSize)]),
                    !.labelName = 0,
                    !.labelDescr = 0,
                    !.lastComputedChainAddr160 = first160,
                    !.lastComputedChainIndex = firstAddr.chainIndex,
                    !.highestUsedChainIndex = firstAddr.chainIndex - 1,
                    !.linearAddr160List = <<first160>>,
                    !.chainIndexMap = Put(@, firstAddr.chainIndex, first160)],
                 LAMBDA s1 :
              LET fileData == packHeader(s1)
                     \o <<WLT_DATATYPE_KEYDATA, first160, serialize(firstAddr)>>
              IN Bind([s1 EXCEPT
                         !.exists = @ \cup (IF skipBackup THEN {"P"} ELSE {"P", "B"}),
                         !.data = [P |-> fileData,
                                   B |-> IF skipBackup THEN @["B"] ELSE fileData]],
                      LAMBDA s2r :
                   Then(IF s2r.useEncryption
                        THEN unlock(BdmCall(s2r, "registerWallet", 0, FALSE), s2r.kdfKey, 0, 0)
                        ELSE BdmCall(s2r, "registerWallet", 0, FALSE),
                        LAMBDA s3 :
                     Then(fillAddressPool(s3, addrPoolSize), LAMBDA s4 :
                       IF s4.useEncryption THEN lock(s4) ELSE s4)))))

\* what TheBDM.getBDMState() may return
BDMStates == {"Offline", "Uninitialized", "Scanning", "BlockchainReady"}

\* syncWithBlockchain, lines 267-286, with doBlockchainSync as __init__ sets it
syncWithBlockchain(s) ==
  IF s.bdmState \in {"Offline", "Uninitialized"} THEN s
  ELSE BdmCall(BdmCall(s, "scanBlockchainForTx", 0, s.calledFromBDM),
               "getTopBlockHeight", 0, s.calledFromBDM)

\* checkIfRescanRequired, lines 2522-2529: the flag is logged, no more
checkIfRescanRequired(s) ==
  IF s.bdmState = "BlockchainReady" THEN BdmCall(s, "numBlocksToRescan", 0, FALSE)
  ELSE s

\* readWalletFile, lines 1927-1960: the entries from position pos on
RECURSIVE readEntries(_, _, _)
readEntries(s, wltdata, pos) ==
  IF pos >= Len(wltdata) THEN s
  ELSE LET dtype == wltdata[pos + 1]
       IN IF dtype = WLT_DATATYPE_KEYDATA
          THEN IF pos + 3 > Len(wltdata) THEN Raise(s, "UnpackerError")
               ELSE LET hashVal == wltdata[pos + 2]
                        read == unserialize(wltdata[pos + 3])
                        newAddr == [read EXCEPT !.walletByteLoc = KeyDataLoc(pos),
                                                !.isLocked = read.useEncryption]
                        fixedAddrData == serialize(read)
                        isLast == newAddr.chainIndex > s.lastComputedChainIndex
                    IN Then(IF wltdata[pos + 3] = fixedAddrData THEN s
                            ELSE walletFileSafeUpdate(s,
                                   <<Modify(KeyDataLoc(pos), <<fixedAddrData>>)>>),
                            LAMBDA s1 :
                         Bind([s1 EXCEPT
                                 !.addrMap = Put(@, hashVal, newAddr),
                                 !.lastComputedChainIndex =
                                    IF isLast THEN newAddr.chainIndex ELSE @,
                                 !.lastComputedChainAddr160 =
                                    IF isLast THEN getAddr160(newAddr) ELSE @,
                                 !.linearAddr160List = Append(@, getAddr160(newAddr)),
                                 !.chainIndexMap =
                                    Put(@, newAddr.chainIndex, getAddr160(newAddr))],
                              LAMBDA s2 : readEntries(s2, wltdata, pos + 3)))
          ELSE IF dtype \in {WLT_DATATYPE_ADDRCOMMENT, WLT_DATATYPE_TXCOMMENT}
          THEN IF pos + 3 > Len(wltdata) \/ pos + 3 + wltdata[pos + 3] > Len(wltdata)
               THEN Raise(s, "UnpackerError")
               ELSE Bind([s EXCEPT
                            !.commentsMap =
                               Put(@, wltdata[pos + 2],
                                   SubSeq(wltdata, pos + 4, pos + 3 + wltdata[pos + 3])),
                            !.commentLocs = Put(@, wltdata[pos + 2], pos)],
                         LAMBDA s2 : readEntries(s2, wltdata, pos + 3 + wltdata[pos + 3]))
          ELSE IF dtype = WLT_DATATYPE_OPEVAL THEN Raise(s, "NotImplementedError")
          ELSE IF dtype = WLT_DATATYPE_DELETED
          THEN IF pos + 2 > Len(wltdata) THEN Raise(s, "UnpackerError")
               ELSE readEntries(s, wltdata, pos + 2 + wltdata[pos + 2])
          ELSE readEntries(s, wltdata, pos + 1)

\* unpackHeader, lines 1817-1826: the wallet file is for this blockchain and
\* this network
headerMatches(wltdata) ==
  /\ wltdata[offsetMagic + 1] = MAGIC_BYTES
  /\ NetworkByte(wltdata[offsetUniqueID + 1]) = ADDRBYTE

\* readWalletFile, lines 1904-1977, with unpackHeader, lines 1803-1874.  When
\* unpackHeader returns early for another blockchain or network, readWalletFile
\* does not look at what it returns and reads entries from where unpackHeader
\* stopped, the short label; what these bytes are taken for and whether the
\* reader raises on them depends on the labels
readWalletFile(s) ==
  IF "P" \notin s.exists THEN Raise(s, "FileExistsError")
  ELSE
    Bind(doWalletFileConsistencyCheck([exists |-> s.exists, data |-> s.data]), LAMBDA fs :
      LET wltdata == fs.data["P"]
          usesEncryption == wltdata[offsetWltFlags + 1] % 2 = 1
          read == unserialize(wltdata[offsetRootAddr + 1])
          rootAddr == [read EXCEPT !.walletByteLoc = offsetRootAddr,
                                   !.isLocked = usesEncryption]
          fixed == IF wltdata[offsetRootAddr + 1] = serialize(read) THEN <<>>
                   ELSE <<Modify(offsetRootAddr, <<serialize(read)>>)>>
          initialized == [s EXCEPT
                            !.exists = fs.exists,
                            !.data = fs.data,
                            !.useEncryption = usesEncryption,
                            !.isLocked = FALSE,
                            !.kdf = 0,
                            !.kdfKey = None,
                            !.defaultKeyLifetime = 10,
                            !.lockWalletAtTime = 0,
                            !.commentsMap = <<>>,
                            !.commentLocs = <<>>,
                            !.addrMap = <<>>,
                            !.linearAddr160List = <<>>,
                            !.chainIndexMap = <<>>,
                            !.lastComputedChainIndex = -UINT32_MAX,
                            !.lastComputedChainAddr160 = 0,
                            !.highestUsedChainIndex = 0,
                            !.labelName = 0,
                            !.labelDescr = 0,
                            !.calledFromBDM = FALSE]
      IN IF Len(wltdata) < HeaderSize THEN Raise(s, "UnpackerError")
         ELSE IF ~headerMatches(wltdata)
         THEN IF s.garbled
              THEN Raise([initialized EXCEPT !.entriesFrom = offsetLabelName],
                         "UnpackerError")
              ELSE [initialized EXCEPT !.entriesFrom = offsetLabelName]
         ELSE Then(walletFileSafeUpdate(
                     [initialized EXCEPT
                        !.isLocked = usesEncryption,
                        !.kdf = wltdata[offsetKdfParams + 1],
                        !.addrMap = Put(<<>>, ROOT, rootAddr),
                        !.highestUsedChainIndex = wltdata[offsetTopUsed + 1],
                        !.labelName = wltdata[offsetLabelName + 1],
                        !.labelDescr = wltdata[offsetLabelDescr + 1]],
                     fixed),
                   LAMBDA t : readEntries([t EXCEPT !.entriesFrom = HeaderSize],
                                          wltdata, HeaderSize)))

-----------------------------------------------------------------------------
(* The wallet, one method call at a time (Spec) *)

\* the wallet object and the files after a call
Install(r) ==
  /\ exists' = r.exists
  /\ data' = r.data
  /\ useEncryption' = r.useEncryption
  /\ isLocked' = r.isLocked
  /\ kdf' = r.kdf
  /\ kdfKey' = r.kdfKey
  /\ defaultKeyLifetime' = r.defaultKeyLifetime
  /\ lockWalletAtTime' = r.lockWalletAtTime
  /\ addrMap' = r.addrMap
  /\ linearAddr160List' = r.linearAddr160List
  /\ chainIndexMap' = r.chainIndexMap
  /\ lastComputedChainIndex' = r.lastComputedChainIndex
  /\ lastComputedChainAddr160' = r.lastComputedChainAddr160
  /\ highestUsedChainIndex' = r.highestUsedChainIndex
  /\ labelName' = r.labelName
  /\ labelDescr' = r.labelDescr
  /\ commentsMap' = r.commentsMap
  /\ commentLocs' = r.commentLocs
  /\ lastOp' = r.lastOp
  /\ raised' = r.raised
  /\ suFailed' = r.suFailed
  /\ leaked' = r.leaked
  /\ calledFromBDM' = r.calledFromBDM
  /\ UNCHANGED <<now, fsProc, walletPath, fpath>>

\* a call is taken only while the chain stays within MaxChainIndex and the
\* wallet file within MaxWalletFileLen
Do(r) ==
  /\ r.lastComputedChainIndex <= MaxChainIndex
  /\ \A h \in DOMAIN r.addrMap : r.addrMap[h].chainIndex <= MaxChainIndex
  /\ Len(r.data["P"]) <= MaxWalletFileLen
  /\ Install(r)

\* getComment, lines 1601-1610
getComment(s, hashVal) ==
  IF hashVal \in DOMAIN s.commentsMap THEN s.commentsMap[hashVal] ELSE <<>>

\* setComment, lines 1619-1641
setComment(s, hashVal, newComment) ==
  LET has == hashVal \in DOMAIN s.commentsMap
      offset == 1 + HashWidth + LenWidth
      dtype == IF hashVal >= TxHash THEN WLT_DATATYPE_TXCOMMENT
               ELSE WLT_DATATYPE_ADDRCOMMENT
  IN IF has /\ hashVal \notin DOMAIN s.commentLocs THEN Raise(s, "KeyError")
     ELSE Then(walletFileSafeUpdate(s,
                 (IF has
                  THEN <<Modify(s.commentLocs[hashVal] + offset,
                                [i \in 1..Len(s.commentsMap[hashVal]) |-> 0])>>
                  ELSE <<>>) \o <<Add(dtype, hashVal, newComment)>>),
               LAMBDA s1 :
          IF s1.ret = <<>>
          THEN Raise([s1 EXCEPT !.commentsMap = Put(@, hashVal, newComment)], "IndexError")
          ELSE [s1 EXCEPT !.commentsMap = Put(@, hashVal, newComment),
                          !.commentLocs = Put(@, hashVal, s1.ret[Len(s1.ret)])])

\* CryptoECDSA().ComputePublicKey(privKey) and convertKeyDataToAddress(pubKey)
ComputePublicKey(privKey) == privKey + 50
convertKeyDataToAddress(pubKey) == pubKey - ComputePublicKey(ImportKey) + Hash160(IMPORTED)

\* storeImported taking the imported address for the last of the chain
storeImported_AsLastComputed(s, addr20) ==
  LET plain == createFromPlainKeyData(IMPORTED, s.useEncryption)
      locked == PyBtcAddress_lock(plain, s.kdfKey)
      made == IF ~s.useEncryption THEN Ok(plain)
              ELSE IF locked.err # "none" THEN locked
              ELSE PyBtcAddress_unlock(locked.addr, s.kdfKey)
      registered(t) ==
        BdmCall([t EXCEPT !.registered = Append(@, addr20), !.ret = addr20],
                "registerImportedScrAddr", addr20, FALSE)
  IN Bind(made, LAMBDA new :
       IF new.err # "none" THEN Raise(s, new.err)
       ELSE Then(walletFileSafeUpdate(s,
                   <<Add(WLT_DATATYPE_KEYDATA, addr20, serialize(new.addr))>>),
                 LAMBDA s1 :
         IF s1.ret = <<>>
         THEN Raise([s1 EXCEPT !.addrMap = Put(@, addr20, new.addr)], "IndexError")
         ELSE Bind([new.addr EXCEPT !.walletByteLoc = KeyDataLoc(s1.ret[1])], LAMBDA copy :
           Bind([s1 EXCEPT !.addrMap = Put(@, addr20, copy),
                           !.linearAddr160List = Append(@, addr20),
                           !.lastComputedChainAddr160 = addr20,
                           !.ret = <<>>], LAMBDA s2 :
             IF ~(s2.useEncryption /\ s2.kdfKey.obj) THEN registered(s2)
             ELSE Bind(PyBtcAddress_lock(copy, s2.kdfKey), LAMBDA l :
               IF l.err # "none" THEN Raise(s2, l.err)
               ELSE IF s2.isLocked
               THEN registered([s2 EXCEPT !.addrMap[addr20] = l.addr])
               ELSE Bind(PyBtcAddress_unlock(l.addr, s2.kdfKey), LAMBDA u :
                 IF u.err # "none"
                 THEN Raise([s2 EXCEPT !.addrMap[addr20] = u.addr], u.err)
                 ELSE registered([s2 EXCEPT !.addrMap[addr20] = u.addr])))))))

\* importExternalAddressData, lines 2351-2394: the address is made from the
\* private key, appended to the file, stored and registered
storeImported(s, addr20) ==
  LET plain == createFromPlainKeyData(IMPORTED, s.useEncryption)
      locked == PyBtcAddress_lock(plain, s.kdfKey)
      made == IF ~s.useEncryption THEN Ok(plain)
              ELSE IF locked.err # "none" THEN locked
              ELSE PyBtcAddress_unlock(locked.addr, s.kdfKey)
      registered(t) ==
        BdmCall([t EXCEPT !.registered = Append(@, addr20), !.ret = addr20],
                "registerImportedScrAddr", addr20, FALSE)
  IN Bind(made, LAMBDA new :
       IF new.err # "none" THEN Raise(s, new.err)
       ELSE Then(walletFileSafeUpdate(s,
                   <<Add(WLT_DATATYPE_KEYDATA, addr20, serialize(new.addr))>>),
                 LAMBDA s1 :
         IF s1.ret = <<>>
         THEN Raise([s1 EXCEPT !.addrMap = Put(@, addr20, new.addr)], "IndexError")
         ELSE Bind([new.addr EXCEPT !.walletByteLoc = KeyDataLoc(s1.ret[1])], LAMBDA copy :
           Bind([s1 EXCEPT !.addrMap = Put(@, addr20, copy),
                           !.linearAddr160List = Append(@, addr20),
                           !.ret = <<>>], LAMBDA s2 :
             IF ~(s2.useEncryption /\ s2.kdfKey.obj) THEN registered(s2)
             ELSE Bind(PyBtcAddress_lock(copy, s2.kdfKey), LAMBDA l :
               IF l.err # "none" THEN Raise(s2, l.err)
               ELSE IF s2.isLocked
               THEN registered([s2 EXCEPT !.addrMap[addr20] = l.addr])
               ELSE Bind(PyBtcAddress_unlock(l.addr, s2.kdfKey), LAMBDA u :
                 IF u.err # "none"
                 THEN Raise([s2 EXCEPT !.addrMap[addr20] = u.addr], u.err)
                 ELSE registered([s2 EXCEPT !.addrMap[addr20] = u.addr])))))))

\* importExternalAddressData without the check for an address it holds already
importExternalAddressData_Duplicates(s, privKey, pubKey, addr20) ==
  IF privKey = 0 THEN Raise(s, "WalletAddressError")
  ELSE LET computedPubkey == ComputePublicKey(privKey)
           computedAddr20 == convertKeyDataToAddress(computedPubkey)
       IN IF addr20 # 0 /\ addr20 \in DOMAIN s.addrMap THEN s
          ELSE IF s.useEncryption /\ ~s.kdfKey.obj THEN Raise(s, "WalletLockError")
          ELSE storeImported(s, computedAddr20)

\* importExternalAddressData, lines 2283-2394, on a wallet that is not
\* watching-only; 0 stands for an argument left
\* None, and addr20 comes in the type line 2324 expects
importExternalAddressData(s, privKey, pubKey, addr20) ==
  IF s.calledFromBDM THEN s
  ELSE IF privKey = 0 THEN Raise(s, "WalletAddressError")
  ELSE LET computedPubkey == ComputePublicKey(privKey)
           computedAddr20 == convertKeyDataToAddress(computedPubkey)
       IN IF addr20 # 0 /\ addr20 \in DOMAIN s.addrMap THEN s
          ELSE IF computedAddr20 \in DOMAIN s.addrMap THEN s
          ELSE IF s.useEncryption /\ ~s.kdfKey.obj THEN Raise(s, "WalletLockError")
          ELSE storeImported(s, computedAddr20)

\* getLinearAddrList, lines 2837-2845, as the set of the list's keys
getLinearAddrList(s, withImported, withAddrPool) ==
  {s.linearAddr160List[i] : i \in
     {j \in 1..Len(s.linearAddr160List) :
        LET a160 == s.linearAddr160List[j]
        IN /\ a160 \in DOMAIN s.addrMap
           /\ a160 # ROOT
           /\ withImported \/ s.addrMap[a160].chainIndex >= 0
           /\ withAddrPool \/ s.addrMap[a160].chainIndex <= s.highestUsedChainIndex}}

\* detectHighestUsedIndex looking one address past the chain
detectHighestUsedIndex_PastChain(s, withTx, writeResultToWallet) ==
  LET highestIndex == s.lastComputedChainIndex + 1
  IN IF writeResultToWallet
     THEN Then(walletFileSafeUpdate([s EXCEPT !.highestUsedChainIndex = highestIndex],
                                    <<Modify(offsetTopUsed, <<highestIndex>>)>>),
               LAMBDA t : [t EXCEPT !.ret = highestIndex])
     ELSE [s EXCEPT !.ret = highestIndex]

\* detectHighestUsedIndex, lines 1010-1035, with the blockchain ready; withTx
\* are the addresses whose ledger holds a transaction
detectHighestUsedIndex(s, withTx, writeResultToWallet) ==
  LET seen == {s.addrMap[a160].chainIndex :
                 a160 \in getLinearAddrList(s, TRUE, TRUE) \cap withTx}
      top == Max(s.highestUsedChainIndex, 0)
      highestIndex == IF seen = {} THEN top
                      ELSE Max(top, CHOOSE i \in seen : \A j \in seen : j <= i)
  IN IF writeResultToWallet
     THEN Then(walletFileSafeUpdate([s EXCEPT !.highestUsedChainIndex = highestIndex],
                                    <<Modify(offsetTopUsed, <<highestIndex>>)>>),
               LAMBDA t : [t EXCEPT !.ret = highestIndex])
     ELSE [s EXCEPT !.ret = highestIndex]

\* setDefaultKeyLifetime, lines 510-512
setDefaultKeyLifetime(s, newlifetime) ==
  [s EXCEPT !.defaultKeyLifetime = Max(newlifetime, 2)]

\* checkWalletLockTimeout locking at the expiry time already
checkWalletLockTimeout_AtExpiry(s) ==
  IF ~s.isLocked /\ s.kdfKey.obj /\ s.now >= s.lockWalletAtTime
  THEN Then(lock(s), LAMBDA t :
         [t EXCEPT !.kdfKey = None,
                   !.isLocked = IF t.useEncryption THEN TRUE ELSE @])
  ELSE s

\* checkWalletLockTimeout, lines 515-523
checkWalletLockTimeout(s) ==
  IF ~s.isLocked /\ s.kdfKey.obj /\ s.now > s.lockWalletAtTime
  THEN Then(lock(s), LAMBDA t :
         [t EXCEPT !.kdfKey = None,
                   !.isLocked = IF t.useEncryption THEN TRUE ELSE @])
  ELSE s

\* deleteImportedAddress deleting whatever address it is given
deleteImportedAddress_AnyAddress(s, addr160) ==
  IF addr160 \notin DOMAIN s.addrMap THEN Raise(s, "KeyError")
  ELSE LET overwriteLoc == s.addrMap[addr160].walletByteLoc - (1 + HashWidth)
           overwriteLen == HashWidth + pybtcaddrSize - LenWidth
           overwriteBin == <<WLT_DATATYPE_DELETED, overwriteLen>>
                             \o [i \in 1..overwriteLen |-> 0]
       IN Then(walletFileSafeUpdate(s, <<Modify(overwriteLoc, overwriteBin)>>),
               LAMBDA t : readWalletFile(t))

\* deleteImportedAddress declaring the whole hash and record as deleted bytes
deleteImportedAddress_LongTombstone(s, addr160) ==
  IF addr160 \notin DOMAIN s.addrMap THEN Raise(s, "KeyError")
  ELSE IF s.addrMap[addr160].chainIndex # IMPORTED THEN Raise(s, "WalletAddressError")
  ELSE LET overwriteLoc == s.addrMap[addr160].walletByteLoc - (1 + HashWidth)
           overwriteLen == HashWidth + pybtcaddrSize
           overwriteBin == <<WLT_DATATYPE_DELETED, overwriteLen>>
                             \o [i \in 1..overwriteLen |-> 0]
       IN Then(walletFileSafeUpdate(s, <<Modify(overwriteLoc, overwriteBin)>>),
               LAMBDA t : readWalletFile(t))

\* deleteImportedAddress without the reload of the wallet file
deleteImportedAddress_NoReload(s, addr160) ==
  IF addr160 \notin DOMAIN s.addrMap THEN Raise(s, "KeyError")
  ELSE IF s.addrMap[addr160].chainIndex # IMPORTED THEN Raise(s, "WalletAddressError")
  ELSE LET overwriteLoc == s.addrMap[addr160].walletByteLoc - (1 + HashWidth)
           overwriteLen == HashWidth + pybtcaddrSize - LenWidth
           overwriteBin == <<WLT_DATATYPE_DELETED, overwriteLen>>
                             \o [i \in 1..overwriteLen |-> 0]
       IN walletFileSafeUpdate(s, <<Modify(overwriteLoc, overwriteBin)>>)

\* deleteImportedAddress, lines 2239-2258; readWalletFile is called with
\* doScanNow, lines 1962-1967
deleteImportedAddress(s, addr160) ==
  IF addr160 \notin DOMAIN s.addrMap THEN Raise(s, "KeyError")
  ELSE IF s.addrMap[addr160].chainIndex # IMPORTED THEN Raise(s, "WalletAddressError")
  ELSE LET overwriteLoc == s.addrMap[addr160].walletByteLoc - (1 + HashWidth)
           overwriteLen == HashWidth + pybtcaddrSize - LenWidth
           overwriteBin == <<WLT_DATATYPE_DELETED, overwriteLen>>
                             \o [i \in 1..overwriteLen |-> 0]
       IN Then(walletFileSafeUpdate(s, <<Modify(overwriteLoc, overwriteBin)>>),
               LAMBDA t : Then(readWalletFile(t), LAMBDA u :
                 IF u.bdmState = "BlockchainReady" THEN syncWithBlockchain(u) ELSE u))

\* signTxDistProposal, lines 2572-2622: the loop over wltAddr, which unlocks
\* an address that is locked and signs with it
RECURSIVE signInputs(_, _)
signInputs(s, wltAddr) ==
  IF wltAddr = <<>> THEN s
  ELSE LET h == Head(wltAddr)
           addrObj == s.addrMap[h]
       IN IF ~addrObj.isLocked THEN signInputs(s, Tail(wltAddr))
          ELSE IF ~s.kdfKey.obj THEN Raise(s, "WalletLockError")
          ELSE Bind(PyBtcAddress_unlock(addrObj, s.kdfKey), LAMBDA u :
                 IF u.err # "none" THEN Raise([s EXCEPT !.addrMap[h] = u.addr], u.err)
                 ELSE Bind([s EXCEPT !.addrMap[h] = u.addr],
                           LAMBDA t : signInputs(t, Tail(wltAddr))))

\* the largest chainIndex of the addresses signed with, -1 for none
RECURSIVE maxChainIndexOf(_, _, _)
maxChainIndexOf(addrs, wltAddr, maxChainIndex) ==
  IF wltAddr = <<>> THEN maxChainIndex
  ELSE maxChainIndexOf(addrs, Tail(wltAddr),
                       Max(maxChainIndex, addrs[Head(wltAddr)].chainIndex))

\* the inputs signTxDistProposal can sign for, lines 2544-2560
signableInputs(s, inputs) ==
  SelectSeq(inputs, LAMBDA h : h \in DOMAIN s.addrMap /\ hasPrivKey(s.addrMap[h]))

\* signTxDistProposal, lines 2534-2630, with hashcode 1; inputs are the
\* addresses of the transaction's inputs, each a single-signature script
signTxDistProposal(s, inputs) ==
  IF s.isLocked THEN Raise(s, "WalletLockError")
  ELSE Bind(signableInputs(s, inputs), LAMBDA wltAddr :
    Bind(maxChainIndexOf(s.addrMap, wltAddr, -1), LAMBDA maxChainIndex :
      Then(signInputs(s, wltAddr), LAMBDA t :
        Bind(t.highestUsedChainIndex, LAMBDA prevHighestIndex :
          IF prevHighestIndex < maxChainIndex
          THEN Then(advanceHighestIndex(t, maxChainIndex - prevHighestIndex), LAMBDA u :
                 Then(fillAddressPool(u, 0), LAMBDA v : [v EXCEPT !.ret = wltAddr]))
          ELSE [t EXCEPT !.ret = wltAddr]))))

\* a wallet has been created or read
HasWallet == ROOT \in DOMAIN addrMap

Init == InitFS

CreateNewWallet ==
  /\ "P" \notin exists
  /\ \E withEncrypt \in BOOLEAN, securePassphrase \in 0..NumPass, skipBackup \in BOOLEAN :
       \E s \in {Self("createNewWallet", NoFault)} :
         \E r \in {createNewWallet(s, withEncrypt, securePassphrase,
                                   computeSystemSpecificKdfParams, skipBackup)} : Do(r)

ComputeNextAddress ==
  /\ HasWallet
  /\ \E fault \in FaultsWithin(1) :
       \E s \in {Self("computeNextAddress", fault)} :
         \E r \in {computeNextAddress(s, s.lastComputedChainAddr160)} : Do(r)

\* computeNextAddress(doRegister=False)
ComputeNextAddressUnregistered ==
  /\ HasWallet
  /\ \E fault \in FaultsWithin(1) :
       \E s \in {[Self("computeNextAddress", fault) EXCEPT !.doRegister = FALSE]} :
         \E r \in {computeNextAddress(s, s.lastComputedChainAddr160)} : Do(r)

\* the BDM sets the flag before it calls the wallet's methods, and clears it
SetCalledFromBDM ==
  /\ calledFromBDM' = ~calledFromBDM
  /\ lastOp' = "calledFromBDM"
  /\ raised' = "none"
  /\ suFailed' = "none"
  /\ UNCHANGED <<fsVars, useEncryption, isLocked, kdf, kdfKey, defaultKeyLifetime,
                 lockWalletAtTime, addrMap, linearAddr160List, chainIndexMap,
                 lastComputedChainIndex, lastComputedChainAddr160,
                 highestUsedChainIndex, labelName, labelDescr, commentsMap,
                 commentLocs, now, leaked, walletPath, fpath>>

SyncWithBlockchain ==
  /\ HasWallet
  /\ \E bdmState \in BDMStates :
       \E s \in {[Self("syncWithBlockchain", NoFault) EXCEPT !.bdmState = bdmState]} :
         \E r \in {syncWithBlockchain(s)} : Do(r)

CheckIfRescanRequired ==
  /\ HasWallet
  /\ \E bdmState \in BDMStates :
       \E s \in {[Self("checkIfRescanRequired", NoFault) EXCEPT !.bdmState = bdmState]} :
         \E r \in {checkIfRescanRequired(s)} : Do(r)

FillAddressPool ==
  /\ HasWallet
  /\ \E numPool \in {0} \cup (addrPoolSize + 1)..(MaxChainIndex + 1), fault \in FaultsWithin(1) :
       \E s \in {Self("fillAddressPool", fault)} :
         \E r \in {fillAddressPool(s, numPool)} : Do(r)

AdvanceHighestIndex ==
  /\ HasWallet
  /\ \E ct \in {-1, 1}, fault \in FaultsWithin(MaxFaultAt) :
       \E s \in {Self("advanceHighestIndex", fault)} :
         \E r \in {advanceHighestIndex(s, ct)} : Do(r)

GetNextUnusedAddress ==
  /\ HasWallet
  /\ \E fault \in FaultsWithin(MaxFaultAt) :
       \E s \in {Self("getNextUnusedAddress", fault)} :
         \E r \in {getNextUnusedAddress(s)} : Do(r)

Unlock ==
  /\ HasWallet
  /\ \E securePassphrase \in 0..NumPass :
       \E s \in {Self("unlock", NoFault)} :
         \E r \in {unlock(s, None, securePassphrase, 0)} : Do(r)

UnlockWithKey ==
  /\ HasWallet
  /\ \E k \in 1..NumKdf, p \in 1..NumPass :
       \E s \in {Self("unlock", NoFault)} :
         \E r \in {unlock(s, DeriveKey(k, p), 0, 0)} : Do(r)

\* unlock with a key lifetime of the caller's choice
UnlockTemp ==
  /\ HasWallet
  /\ \E securePassphrase \in 1..NumPass, tempKeyLifetime \in 1..MaxLifetime :
       \E s \in {Self("unlock", NoFault)} :
         \E r \in {unlock(s, None, securePassphrase, tempKeyLifetime)} : Do(r)

SetDefaultKeyLifetime ==
  /\ HasWallet
  /\ \E newlifetime \in 0..MaxLifetime :
       \E s \in {Self("setDefaultKeyLifetime", NoFault)} :
         \E r \in {setDefaultKeyLifetime(s, newlifetime)} : Do(r)

CheckWalletLockTimeout ==
  /\ HasWallet
  /\ \E s \in {Self("checkWalletLockTimeout", NoFault)} :
       \E r \in {checkWalletLockTimeout(s)} : Do(r)

\* a second passes
Tick ==
  /\ now < MaxTime
  /\ now' = now + 1
  /\ UNCHANGED <<fsVars, useEncryption, isLocked, kdf, kdfKey, defaultKeyLifetime,
                 lockWalletAtTime, addrMap, linearAddr160List, chainIndexMap,
                 lastComputedChainIndex, lastComputedChainAddr160,
                 highestUsedChainIndex, labelName, labelDescr, commentsMap,
                 commentLocs, lastOp, raised, suFailed, leaked, calledFromBDM,
                 walletPath, fpath>>

Lock ==
  /\ HasWallet
  /\ \E s \in {Self("lock", NoFault)} :
       \E r \in {lock(s)} : Do(r)

VerifyPassphrase ==
  /\ HasWallet
  /\ \E securePassphrase \in 1..NumPass :
       \E s \in {Self("verifyPassphrase", NoFault)} :
         \E r \in {verifyPassphrase(s, securePassphrase)} : Do(r)

ChangeWalletEncryption ==
  /\ HasWallet
  /\ \E securePassphrase \in 0..NumPass, fault \in FaultsWithin(1) :
       \E s \in {Self("changeWalletEncryption", fault)} :
         \E r \in {changeWalletEncryption(s, None, securePassphrase, <<>>, 0)} : Do(r)

\* the process stops inside the safe update of changeWalletEncryption, after
\* step of its effects
ChangeWalletEncryptionCrash ==
  /\ HasWallet
  /\ \E securePassphrase \in 0..NumPass, step \in 0..MaxCrashStep :
       \E s \in {[Self("changeWalletEncryption", NoFault) EXCEPT !.crashStep = step]} :
         \E r \in {changeWalletEncryption(s, None, securePassphrase, <<>>, 0)} :
           r.raised = "Crash" /\ Do(r)

ChangeKdfParams ==
  /\ HasWallet
  /\ \E newkdf \in 1..NumKdf, securePassphrase \in 0..NumPass, fault \in FaultsWithin(1) :
       \E s \in {Self("changeKdfParams", fault)} :
         \E r \in {changeKdfParams(s, newkdf, securePassphrase)} : Do(r)

\* the blockchain shows a transaction for at most one address of the wallet
DetectHighestUsedIndex ==
  /\ HasWallet
  /\ \E withTx \in {{}} \cup {{a160} : a160 \in DOMAIN addrMap \ {ROOT}},
        writeResultToWallet \in BOOLEAN, fault \in FaultsWithin(1) :
       \E s \in {Self("detectHighestUsedIndex", fault)} :
         \E r \in {detectHighestUsedIndex(s, withTx, writeResultToWallet)} : Do(r)

\* a comment for the first address of the chain or for a transaction
SetComment ==
  /\ HasWallet
  /\ \E hashVal \in {Hash160(0), TxHash},
        newComment \in {<<>>} \cup {<<c>> : c \in 1..NumComments},
        fault \in FaultsWithin(1) :
       \E s \in {Self("setComment", fault)} :
         \E r \in {setComment(s, hashVal, newComment)} : Do(r)

\* what a caller may hand to importExternalAddressData as privKey, pubKey and
\* addr20: nothing; the key ImportKey alone; the key with a public key that
\* agrees with it or belongs to nothing; the key with an address hash that
\* agrees with it, belongs to nothing, or is the first chained address
ImportArgs ==
  {<<0, 0, 0>>, <<ImportKey, 0, 0>>,
   <<ImportKey, ComputePublicKey(ImportKey), 0>>, <<ImportKey, OtherPubKey, 0>>,
   <<ImportKey, 0, Hash160(IMPORTED)>>, <<ImportKey, 0, OtherAddr20>>,
   <<ImportKey, 0, Hash160(0)>>}

ImportExternalAddressData ==
  /\ HasWallet
  /\ \E args \in ImportArgs, fault \in FaultsWithin(1) :
       \E s \in {Self("importExternalAddressData", fault)} :
         \E r \in {importExternalAddressData(s, args[1], args[2], args[3])} : Do(r)

DeleteImportedAddress ==
  /\ HasWallet
  /\ \E addr160 \in DOMAIN addrMap, fault \in FaultsWithin(1),
        bdmState \in {"Offline", "BlockchainReady"} :
       \E s \in {[Self("deleteImportedAddress", fault) EXCEPT !.bdmState = bdmState]} :
         \E r \in {deleteImportedAddress(s, addr160)} : Do(r)

\* the transactions a caller may ask to sign: no input, one, or two different
\* ones, of the wallet's addresses and of an address that is not the wallet's
TxInputs ==
  LET addrs == (DOMAIN addrMap \ {ROOT}) \cup {OtherAddr20}
  IN {<<>>} \cup {<<a>> : a \in addrs}
       \cup {<<p[1], p[2]>> : p \in {q \in addrs \X addrs : q[1] < q[2]}}

SignTxDistProposal ==
  /\ HasWallet
  /\ \E inputs \in TxInputs, fault \in FaultsWithin(1) :
       \E s \in {Self("signTxDistProposal", fault)} :
         \E r \in {signTxDistProposal(s, inputs)} : Do(r)

SetWalletLabels ==
  /\ HasWallet
  /\ \E lshort \in 1..NumLabels, llong \in 1..NumLabels, fault \in FaultsWithin(1) :
       \E s \in {Self("setWalletLabels", fault)} :
         \E r \in {setWalletLabels(s, lshort, llong)} : Do(r)

ReadWalletFile ==
  /\ "P" \in exists
  /\ \E garbled \in BOOLEAN :
       \E s \in {[Self("readWalletFile", NoFault) EXCEPT !.garbled = garbled]} :
         \E r \in {readWalletFile(s)} : Do(r)

\* the user puts a wallet file made for another blockchain or for another
\* network in the place of the wallet file and of its backup
OtherWalletFile ==
  /\ "P" \in exists
  /\ exists \cap {"MUF", "BUF"} = {}
  /\ Len(data["P"]) >= HeaderSize
  /\ headerMatches(data["P"])
  /\ \E other \in {[data["P"] EXCEPT ![offsetMagic + 1] = MAGIC_BYTES + 1],
                   [data["P"] EXCEPT ![offsetUniqueID + 1] =
                      UniqueID(ADDRBYTE + 1, @ % 100)]} :
       data' = [P |-> other, B |-> other]
  /\ UNCHANGED <<exists, fsProc, wltVars>>

\* the wallet file and its backup get an entry from elsewhere: one byte that
\* is no known type, or the type byte of an OP_EVAL entry
OtherEntry ==
  /\ "P" \in exists
  /\ exists \cap {"MUF", "BUF"} = {}
  /\ Len(data["P"]) >= HeaderSize
  /\ Len(data["P"]) < MaxWalletFileLen
  /\ Cardinality({i \in HeaderSize + 1..Len(data["P"]) :
                    data["P"][i] \in {UnknownType, WLT_DATATYPE_OPEVAL}}) < MaxOtherEntries
  /\ \E dtype \in {UnknownType, WLT_DATATYPE_OPEVAL} :
       data' = [P |-> Append(data["P"], dtype), B |-> Append(data["P"], dtype)]
  /\ UNCHANGED <<exists, fsProc, wltVars>>

Next ==
  \/ CreateNewWallet
  \/ Unlock \/ UnlockWithKey \/ Lock
  \/ VerifyPassphrase \/ ChangeWalletEncryption \/ ChangeKdfParams
  \/ ReadWalletFile

Spec == Init /\ [][Next]_vars

-----------------------------------------------------------------------------
(* The address chain and the labels, one method call at a time (SpecPool) *)

NextPool ==
  \/ CreateNewWallet
  \/ ComputeNextAddress \/ AdvanceHighestIndex \/ GetNextUnusedAddress
  \/ SetWalletLabels
  \/ ReadWalletFile

SpecPool == Init /\ [][NextPool]_vars

-----------------------------------------------------------------------------
(* Locking, unlocking and the clock (SpecLock) *)

NextLock == \/ CreateNewWallet \/ ComputeNextAddress \/ Unlock \/ UnlockTemp \/ Lock
            \/ SetDefaultKeyLifetime \/ Tick \/ CheckWalletLockTimeout

SpecLock == Init /\ [][NextLock]_vars

-----------------------------------------------------------------------------
(* The address chain of a wallet that is locked and unlocked (SpecChain) *)

NextChain == \/ CreateNewWallet \/ ComputeNextAddress \/ AdvanceHighestIndex
             \/ GetNextUnusedAddress \/ DetectHighestUsedIndex \/ Unlock \/ Lock
             \/ ReadWalletFile

SpecChain == Init /\ [][NextChain]_vars

-----------------------------------------------------------------------------
(* The entries of the wallet file under calls that complete (SpecEntries) *)

\* the call returns, and every safe update it made succeeded
Completed == raised' = "none" /\ suFailed' = "none"

NextEntries == \/ CreateNewWallet /\ Completed
               \/ ComputeNextAddress /\ Completed
               \/ ImportExternalAddressData /\ Completed
               \/ SetComment /\ Completed
               \/ DeleteImportedAddress /\ Completed
               \/ ChangeWalletEncryption /\ Completed
               \/ Unlock /\ Completed
               \/ Lock /\ Completed
               \/ ReadWalletFile /\ Completed

SpecEntries == Init /\ [][NextEntries]_vars

-----------------------------------------------------------------------------
(* Imported addresses, with the calls that fail (SpecImport) *)

NextImport == \/ CreateNewWallet \/ ImportExternalAddressData \/ DeleteImportedAddress
              \/ Unlock \/ Lock \/ ReadWalletFile

SpecImport == Init /\ [][NextImport]_vars

-----------------------------------------------------------------------------
(* Signing with chained and imported addresses (SpecSign) *)

NextSign == \/ CreateNewWallet \/ ComputeNextAddress \/ ImportExternalAddressData
            \/ SignTxDistProposal \/ Unlock \/ Lock

SpecSign == Init /\ [][NextSign]_vars

-----------------------------------------------------------------------------
(* Reading wallet files that this engine did not write (SpecLoad) *)

NextLoad == \/ CreateNewWallet \/ ComputeNextAddress
            \/ OtherWalletFile \/ OtherEntry \/ ReadWalletFile

SpecLoad == Init /\ [][NextLoad]_vars

-----------------------------------------------------------------------------
(* Comments, with the calls that fail (SpecComments) *)

NextComments == \/ CreateNewWallet \/ SetComment \/ ReadWalletFile

SpecComments == Init /\ [][NextComments]_vars

-----------------------------------------------------------------------------
(* The chain, the labels and the encryption under calls that complete
   (SpecRoundTrip) *)

NextRoundTrip ==
  \/ CreateNewWallet /\ Completed
  \/ ComputeNextAddress /\ Completed
  \/ AdvanceHighestIndex /\ Completed
  \/ SetWalletLabels /\ Completed
  \/ ChangeKdfParams /\ Completed
  \/ ChangeWalletEncryption /\ Completed
  \/ Unlock /\ Completed
  \/ Lock /\ Completed

SpecRoundTrip == Init /\ [][NextRoundTrip]_vars

-----------------------------------------------------------------------------
(* The calls of the BDM's methods (SpecBDM) *)

NextBDM == \/ CreateNewWallet \/ SetCalledFromBDM \/ ComputeNextAddress
           \/ ComputeNextAddressUnregistered
           \/ ImportExternalAddressData \/ DeleteImportedAddress
           \/ SyncWithBlockchain \/ CheckIfRescanRequired

SpecBDM == Init /\ [][NextBDM]_vars


-----------------------------------------------------------------------------
(* The paths of the backup and of the flag files (SpecPath) *)

\* a path is a sequence of cells: a cell is a part of a name that holds neither
\* an underscore nor a dot, or "_", or "."; the paths are names in one directory
PathCells == {"w", "_", "."}
\* the longest wallet path, in cells
MaxPathLen == 4
WalletPaths ==
  UNION {[1..n -> PathCells] : n \in 1..MaxPathLen}

\* nameSuffix = None
NoSuffix == <<>>
\* 'backup', 'update_unsuccessful' and 'backup_unsuccessful', lines 2046-2048
NameSuffixes ==
  {<<"backup">>, <<"update", "_", "unsuccessful">>, <<"backup", "_", "unsuccessful">>}

\* os.path.join(ARMORY_HOME_DIR, 'armory_%s_.wallet' % self.uniqueIDB58)
DefaultWalletPath == <<"armory", "_", "id", "_", ".", "wallet">>

\* os.path.splitext(p): the extension starts at the last dot, unless only dots
\* come before it
splitext(p) ==
  LET dots == {i \in 1..Len(p) : p[i] = "."}
      last == CHOOSE i \in dots : \A j \in dots : j <= i
  IN IF dots = {} \/ \A j \in 1..last : p[j] = "." THEN <<p, <<>>>>
     ELSE <<SubSeq(p, 1, last - 1), SubSeq(p, last, Len(p))>>

\* getSuffixedPath, lines 2944-2952
getSuffixedPath(wltPath, nameSuffix) ==
  LET pieces == splitext(wltPath)
  IN IF pieces[1] = <<>> \/ pieces[1][Len(pieces[1])] # "_"
     THEN pieces[1] \o <<"_">> \o nameSuffix \o pieces[2]
     ELSE pieces[1] \o nameSuffix \o pieces[2]

\* getWalletPath, lines 1577-1589, of a wallet whose walletPath is wltPath
getWalletPath(wltPath, nameSuffix) ==
  LET fpath0 == IF wltPath = <<>> THEN DefaultWalletPath ELSE wltPath
  IN IF nameSuffix = NoSuffix THEN fpath0
     ELSE getSuffixedPath(fpath0, nameSuffix)

\* a wallet object at any path
InitPath ==
  /\ InitFiles
  /\ InitObject
  /\ walletPath \in WalletPaths \cup {<<>>}

GetWalletPath ==
  /\ \E nameSuffix \in NameSuffixes \cup {NoSuffix} :
       fpath' = getWalletPath(walletPath, nameSuffix)
  /\ lastOp' = "getWalletPath"
  /\ UNCHANGED <<fsVars, useEncryption, isLocked, kdf, kdfKey, defaultKeyLifetime,
                 lockWalletAtTime, addrMap, linearAddr160List, chainIndexMap,
                 lastComputedChainIndex, lastComputedChainAddr160,
                 highestUsedChainIndex, labelName, labelDescr, commentsMap,
                 commentLocs, now, raised, suFailed, leaked, calledFromBDM, walletPath>>

NextPath == GetWalletPath

SpecPath == InitPath /\ [][NextPath]_vars
-----------------------------------------------------------------------------
(* Claims about the file protocol (SpecFS) *)

NoFlags == "MUF" \notin exists /\ "BUF" \notin exists

\* the file the running (or last) safe update is to leave
PostData == ApplyUpdate(preData, updateList)

\* the statements of walletFileSafeUpdate from touching MUF to removing BUF
SafeUpdateSteps ==
  {"su_appendP", "su_modP", "su_main_restore", "su_main_restore_rm", "su_touchBUF",
   "su_rmMUF", "su_appendB", "su_modB", "su_backup_restore", "su_backup_restore_rm",
   "su_rmBUF"}

\* pc = "idle" with crashAt set: readWalletFile's consistency check has finished
\* after the crash
Recovered(steps) == pc = "idle" /\ crashAt \in steps

\* C1: after a crash anywhere inside walletFileSafeUpdate and a run of
\* doWalletFileConsistencyCheck, the wallet file and the backup are identical, no
\* flag file is left, and the content is the file before the update or the
\* fully updated file.
C1_CrashRecovery ==
  Recovered(SafeUpdateSteps) =>
    /\ exists = {"P", "B"}
    /\ data["P"] = data["B"]
    /\ data["P"] \in {preData, PostData}

\* a crash between two in-place writes to P, undone by the recovery
C1_Witness ==
  /\ Recovered({"su_modP"})
  /\ modIdx = 2
  /\ Len(dataToChange(updateList)) = 2
  /\ data["P"] = preData
  /\ preData # PostData

\* C2 as stated: after a crash with P fully written and BUF not yet touched,
\* the next open copies P over B, removes MUF and yields the updated wallet.
C2_Original ==
  Recovered({"su_touchBUF"}) =>
    /\ "MUF" \notin exists
    /\ data["B"] = data["P"]
    /\ data["P"] = PostData

\* C2 amended: after a crash with P fully written and BUF not yet touched (MUF
\* present, BUF absent, B stale), the next open copies B over P, removes MUF,
\* and the reopened wallet is the wallet before the update.
C2_RestoresBackup ==
  Recovered({"su_touchBUF"}) =>
    /\ exists = {"P", "B"}
    /\ data["P"] = data["B"]
    /\ data["P"] = preData

C2_Witness ==
  /\ Recovered({"su_touchBUF"})
  /\ preData # PostData
  /\ data["P"] = preData

\* C3 as stated: whenever a wallet file exists and neither flag file does, the
\* backup exists and is identical to the wallet file.
C3_Original ==
  ("P" \in exists /\ NoFlags) => ("B" \in exists /\ data["B"] = data["P"])

\* C3 amended: once createNewWallet has finished writing its files, whenever
\* neither flag file exists the backup is identical to the wallet file, or
\* does not exist yet because createNewWallet was told to skip it.
C3_NoFlagsSynced ==
  (wltCreated /\ NoFlags) =>
    \/ "B" \in exists /\ data["B"] = data["P"]
    \/ "B" \notin exists /\ skipBackupFile

C3_Witness ==
  /\ wltCreated
  /\ NoFlags
  /\ pc = "idle"
  /\ suRet = "ok"
  /\ "B" \in exists
  /\ data["P"] = PostData
  /\ PostData # preData

\* C9: a safe update that met an IOError while writing the wallet file or the
\* backup returns the empty list, and leaves no flag file and identical files.
C9_IOErrorReturnsEmpty ==
  (pc = "idle" /\ ioError # "none") =>
    /\ suRet = "empty"
    /\ NoFlags
    /\ data["P"] = data["B"]

-----------------------------------------------------------------------------
(* Claims about the keys and the encryption (Spec) *)

\* a reload of the wallet file into a new wallet object
Reloaded == Bind(Self("readWalletFile", NoFault), LAMBDA s : readWalletFile(s))

\* C4: after changeKdfParams has completed on an encrypted wallet, the KDF slot
\* of the file and the wallet's KDF agree, the root and every address are
\* encrypted under the key that KDF derives from one passphrase, and
\* verifyPassphrase accepts that passphrase in memory and after a reload.
C4_KdfChangeReEncrypts ==
  (lastOp = "changeKdfParams" /\ raised = "none" /\ useEncryption) =>
    /\ data["P"][offsetKdfParams + 1] = kdf
    /\ \E securePassphrase \in 1..NumPass :
         /\ \A addr160 \in DOMAIN addrMap :
              addrMap[addr160].encKey = DeriveKey(kdf, securePassphrase).val
         /\ \E s \in {Self("verifyPassphrase", NoFault)} :
              verifyPassphrase(s, securePassphrase).ret = TRUE
         /\ \E s \in {Reloaded} : verifyPassphrase(s, securePassphrase).ret = TRUE

\* C6: when the safe update of changeWalletEncryption returns the empty list,
\* useEncryption keeps the value it had before the call.
C6_FailedUpdateKeepsEncryptionState ==
  [][(lastOp' = "changeWalletEncryption" /\ suFailed' = "empty")
        => UNCHANGED useEncryption]_vars

\* C7: whenever changeWalletEncryption_ has exited, the copy of the old derived
\* key and the new key it derived are destroyed.
C7_BothKeysDestroyed ==
  lastOp = "changeWalletEncryption" =>
    /\ "changeWalletEncryption_.oldKdfKey" \notin leaked
    /\ "changeWalletEncryption_.newKdfKey" \notin leaked

\* C8: whenever unlock or verifyPassphrase has exited, the key it derived from
\* the passphrase is destroyed unless the wallet holds it.
C8_DerivedKeyDestroyed ==
  lastOp \in {"unlock", "verifyPassphrase"} =>
    /\ "unlock_.secureKdfOutput" \notin leaked
    /\ "verifyPassphrase.kdfOutput" \notin leaked

\* the keys a caller may hand to unlock
CallerKeys == {None} \cup {DeriveKey(k, p) : k \in 1..NumKdf, p \in 1..NumPass}

\* the key unlock_ verifies fails verification against the root address
FailsVerification(secureKdfOutput, securePassphrase) ==
  /\ secureKdfOutput.obj \/ (securePassphrase # 0 /\ kdf # 0)
  /\ ~PyBtcAddress_verifyEncryptionKey(addrMap[ROOT],
                                       IF secureKdfOutput.obj THEN secureKdfOutput
                                       ELSE DeriveKey(kdf, securePassphrase))

\* C10: an unlock of a locked or encrypted wallet with a passphrase or a key
\* that fails verification against the root address raises PassphraseError and
\* changes nothing: isLocked, kdfKey, lockWalletAtTime, every address and the
\* files are as before.
C10_FailedUnlockChangesNothing ==
  [][\A secureKdfOutput \in CallerKeys, securePassphrase \in 0..NumPass :
       ( /\ lastOp' = "unlock"
         /\ HasWallet
         /\ isLocked \/ useEncryption
         /\ FailsVerification(secureKdfOutput, securePassphrase)
         /\ \E s \in {Self("unlock", NoFault)} :
              \E r \in {unlock(s, secureKdfOutput, securePassphrase, 0)} : Install(r) )
       => ( /\ raised' = "PassphraseError"
            /\ UNCHANGED <<isLocked, kdfKey, lockWalletAtTime, addrMap, exists, data>> )]_vars

\* a locked, encrypted wallet has refused a passphrase: the key derived from it
\* did not verify
C10_Witness ==
  /\ lastOp = "unlock"
  /\ raised = "PassphraseError"
  /\ "unlock_.secureKdfOutput" \in leaked
  /\ isLocked
  /\ useEncryption
  /\ ~kdfKey.obj

-----------------------------------------------------------------------------
(* Claims about the address chain and the labels (SpecPool) *)

\* C5: when the safe update of computeNextAddress or setWalletLabels fails, by
\* returning the empty list or by raising, addrMap, linearAddr160List,
\* chainIndexMap, lastComputedChainIndex, highestUsedChainIndex, the labels and
\* kdf keep the values they had before the call.
C5_FailedUpdateLeavesMemory ==
  [][(lastOp' \in {"computeNextAddress", "setWalletLabels"} /\ suFailed' # "none")
        => UNCHANGED <<addrMap, linearAddr160List, chainIndexMap, lastComputedChainIndex,
                       highestUsedChainIndex, labelName, labelDescr, kdf>>]_vars

-----------------------------------------------------------------------------
(* Claims about the preconditions of an encryption change (Spec) *)

\* C11: changeWalletEncryption on an encrypted wallet that is locked raises
\* WalletLockError, whether it is asked to re-key or to remove the encryption,
\* and asked to encrypt a wallet without a KDF it raises EncryptionError; in
\* both cases the wallet object and the files are as before.
C11_PreconditionFailureChangesNothing ==
  [][\A secureKdfOutput \in CallerKeys, securePassphrase \in 0..NumPass :
       ( /\ lastOp' = "changeWalletEncryption"
         /\ HasWallet
         /\ \/ useEncryption /\ isLocked
            \/ (securePassphrase # 0 \/ secureKdfOutput.obj) /\ kdf = 0
         /\ \E s \in {Self("changeWalletEncryption", NoFault)} :
              \E r \in {changeWalletEncryption(s, secureKdfOutput, securePassphrase,
                                               <<>>, 0)} : Install(r) )
       => ( /\ raised' = IF useEncryption /\ isLocked THEN "WalletLockError"
                         ELSE "EncryptionError"
            /\ UNCHANGED <<useEncryption, isLocked, kdf, kdfKey, defaultKeyLifetime,
                           lockWalletAtTime, addrMap, linearAddr160List, chainIndexMap,
                           lastComputedChainIndex, lastComputedChainAddr160,
                           highestUsedChainIndex, labelName, labelDescr,
                           exists, data>> )]_vars

\* a locked, encrypted wallet has refused an encryption change
C11_Witness ==
  /\ lastOp = "changeWalletEncryption"
  /\ raised = "WalletLockError"
  /\ useEncryption
  /\ isLocked

-----------------------------------------------------------------------------
(* Claims about locking, unlocking and the clock (SpecLock) *)

\* C12: an unlock at time t sets the expiry to t + L, L being tempKeyLifetime
\* if non-zero and defaultKeyLifetime otherwise, which is never below 2; a
\* checkWalletLockTimeout call on an unlocked encrypted wallet after the expiry
\* leaves the wallet locked with kdfKey cleared and no key left alive, and a
\* call at or before the expiry, or on a locked wallet, changes nothing.
C12_LockTimeout ==
  [][/\ defaultKeyLifetime' >= 2
     /\ \A securePassphrase \in 1..NumPass, tempKeyLifetime \in 0..MaxLifetime :
          ( /\ lastOp' = "unlock"
            /\ HasWallet
            /\ isLocked \/ useEncryption
            /\ \E s \in {Self("unlock", NoFault)} :
                 \E r \in {unlock(s, None, securePassphrase, tempKeyLifetime)} :
                    ~Failed(r) /\ Install(r) )
          => lockWalletAtTime' = now + (IF tempKeyLifetime # 0 THEN tempKeyLifetime
                                        ELSE defaultKeyLifetime)
     /\ ( /\ lastOp' = "checkWalletLockTimeout"
          /\ HasWallet
          /\ \E s \in {Self("checkWalletLockTimeout", NoFault)} :
               \E r \in {checkWalletLockTimeout(s)} : Install(r) )
        => IF ~isLocked /\ useEncryption /\ now > lockWalletAtTime
           THEN /\ isLocked'
                /\ kdfKey' = None
                /\ raised' = "none"
                /\ leaked' = {}
           ELSE UNCHANGED <<useEncryption, isLocked, kdf, kdfKey, defaultKeyLifetime,
                            lockWalletAtTime, addrMap, linearAddr160List, chainIndexMap,
                            lastComputedChainIndex, lastComputedChainAddr160,
                            highestUsedChainIndex, labelName, labelDescr,
                            exists, data>>]_vars

\* the heartbeat has run after the expiry of an unlock and the wallet is locked
C12_Witness ==
  /\ lastOp = "checkWalletLockTimeout"
  /\ raised = "none"
  /\ useEncryption
  /\ isLocked
  /\ ~kdfKey.obj
  /\ lockWalletAtTime > 0
  /\ now > lockWalletAtTime

\* the wallet objects a and b agree on everything but the expiry time
SameButExpiry(a, b) ==
  /\ a.useEncryption = b.useEncryption
  /\ a.isLocked = b.isLocked
  /\ a.kdf = b.kdf
  /\ a.kdfKey = b.kdfKey
  /\ a.defaultKeyLifetime = b.defaultKeyLifetime
  /\ a.addrMap = b.addrMap
  /\ a.linearAddr160List = b.linearAddr160List
  /\ a.chainIndexMap = b.chainIndexMap
  /\ a.lastComputedChainIndex = b.lastComputedChainIndex
  /\ a.lastComputedChainAddr160 = b.lastComputedChainAddr160
  /\ a.highestUsedChainIndex = b.highestUsedChainIndex
  /\ a.labelName = b.labelName
  /\ a.labelDescr = b.labelDescr
  /\ a.exists = b.exists
  /\ a.data = b.data

\* a call on the wallet object another call has left
After(a) == [a EXCEPT !.updates = <<>>, !.ret = <<>>, !.leaked = {}]

\* C13: on an encrypted wallet, lock() succeeds and leaves the wallet locked
\* without a key, and a second lock() succeeds and leaves the same wallet; an
\* unlock with the right passphrase or key followed by the same unlock leaves
\* the wallet the first one left, the second call handing nothing to
\* walletFileSafeUpdate.
C13_LockUnlockIdempotent ==
  (HasWallet /\ useEncryption) =>
    /\ \A a \in {lock(Self("lock", NoFault))} :
         /\ ~Failed(a)
         /\ a.isLocked
         /\ a.kdfKey = None
         /\ \A b \in {lock(After(a))} :
              /\ ~Failed(b)
              /\ SameButExpiry(a, b)
              /\ a.lockWalletAtTime = b.lockWalletAtTime
    /\ \A secureKdfOutput \in CallerKeys, securePassphrase \in 0..NumPass :
         (secureKdfOutput.obj # (securePassphrase # 0)) =>
           \A a \in {unlock(Self("unlock", NoFault), secureKdfOutput, securePassphrase, 0)} :
             ~Failed(a) =>
               \A b \in {unlock(After(a), secureKdfOutput, securePassphrase, 0)} :
                 /\ ~Failed(b)
                 /\ SameButExpiry(a, b)
                 /\ b.updates = <<>>

\* an encrypted wallet with addresses beyond the first pool has been unlocked:
\* the next unlock is a second one
C13_Witness ==
  /\ lastOp = "unlock"
  /\ raised = "none"
  /\ useEncryption
  /\ ~isLocked
  /\ kdfKey.obj
  /\ lastComputedChainIndex > addrPoolSize - 1

-----------------------------------------------------------------------------
(* Claims about the address pool and the chain (SpecChain) *)

C15_PoolRefilled ==
  (lastOp = "getNextUnusedAddress" /\ raised = "none")
     => lastComputedChainIndex - highestUsedChainIndex >= addrPoolSize - 1

\* getNextUnusedAddress has returned for the second time at least, on a wallet
\* that is encrypted and locked
C15_Witness ==
  /\ lastOp = "getNextUnusedAddress"
  /\ raised = "none"
  /\ useEncryption
  /\ isLocked
  /\ highestUsedChainIndex >= 1

\* the chain indexes of the addresses in addrMap, the root's -1 left out
ChainIndexes == {addrMap[a160].chainIndex : a160 \in DOMAIN addrMap \ {ROOT}}

C17_NextUnusedIsNext ==
  [][(lastOp' = "getNextUnusedAddress" /\ HasWallet) =>
     \A fault \in FaultsWithin(MaxFaultAt) :
       \A s \in {Self("getNextUnusedAddress", fault)} :
         \A r \in {getNextUnusedAddress(s)} :
           (~Failed(r) /\ Install(r))
           => ( /\ r.ret \in DOMAIN r.addrMap
                /\ r.addrMap[r.ret].chainIndex = highestUsedChainIndex + 1
                /\ highestUsedChainIndex' = highestUsedChainIndex + 1 )]_vars

\* getNextUnusedAddress has handed out the address of chain index 1, after that
\* of index 0
C17_Witness ==
  /\ lastOp = "getNextUnusedAddress"
  /\ raised = "none"
  /\ highestUsedChainIndex = 1

\* C18: advanceHighestIndex(ct) hands walletFileSafeUpdate one MODIFY at
\* offsetTopUsed of highestUsedChainIndex + ct clamped into
\* [0, lastComputedChainIndex], and a call that returns leaves
\* highestUsedChainIndex at that value, writes it to the file unless the update
\* failed, and leaves lastComputedChainIndex - highestUsedChainIndex >=
\* addrPoolSize.
C18_AdvanceClampsWritesRefills ==
  [][(lastOp' = "advanceHighestIndex" /\ HasWallet) =>
     \A ct \in {-1, 1}, fault \in FaultsWithin(MaxFaultAt) :
       \A s \in {Self("advanceHighestIndex", fault)} :
         \A r \in {advanceHighestIndex(s, ct)} :
           Install(r)
           => LET topIndex == Max(Min(highestUsedChainIndex + ct, lastComputedChainIndex), 0)
                  modifies == {i \in 1..Len(r.updates) :
                                 \E j \in 1..Len(r.updates[i]) :
                                    r.updates[i][j].modType = WLT_UPDATE_MODIFY}
              IN /\ Len(r.updates) >= 1
                 /\ r.updates[1] = <<Modify(offsetTopUsed, <<topIndex>>)>>
                 /\ modifies = {1}
                 /\ ~Failed(r) =>
                      /\ highestUsedChainIndex' = topIndex
                      /\ r.suFailed = "none" => data'["P"][offsetTopUsed + 1] = topIndex
                      /\ lastComputedChainIndex' - highestUsedChainIndex' >= addrPoolSize]_vars

\* rewindHighestIndex has returned on a wallet none of whose addresses was used:
\* the clamp has raised highestUsedChainIndex to 0 and the pool was refilled
C18_Witness ==
  /\ lastOp = "advanceHighestIndex"
  /\ raised = "none"
  /\ highestUsedChainIndex = 0
  /\ lastComputedChainIndex = addrPoolSize
  /\ data["P"][offsetTopUsed + 1] = 0

\* the hashes in linearAddr160List
LinearAddrs == {linearAddr160List[i] : i \in 1..Len(linearAddr160List)}

\* C20: for every address of addrMap with chainIndex >= 0, chainIndexMap maps
\* that index to the address's hash160 and the hash is in linearAddr160List, and
\* chainIndexMap has an entry for every index from 0 to lastComputedChainIndex.
C20_ChainIndexMapAgrees ==
  HasWallet =>
    /\ \A a160 \in DOMAIN addrMap :
         addrMap[a160].chainIndex >= 0 =>
           /\ addrMap[a160].chainIndex \in DOMAIN chainIndexMap
           /\ chainIndexMap[addrMap[a160].chainIndex] = getAddr160(addrMap[a160])
           /\ getAddr160(addrMap[a160]) \in LinearAddrs
    /\ \A i \in 0..lastComputedChainIndex : i \in DOMAIN chainIndexMap

-----------------------------------------------------------------------------
(* Claims about the entries of the wallet file (SpecEntries) *)

\* where the entries of a wallet file start, as unpackNextEntry steps through
\* them from pos on
RECURSIVE EntryStarts(_, _)
EntryStarts(wltdata, pos) ==
  IF pos >= Len(wltdata) THEN {}
  ELSE LET dtype == wltdata[pos + 1]
           next == IF dtype = WLT_DATATYPE_KEYDATA THEN pos + 1 + HashWidth + pybtcaddrSize
                   ELSE IF dtype \in {WLT_DATATYPE_ADDRCOMMENT, WLT_DATATYPE_TXCOMMENT}
                   THEN IF pos + 3 > Len(wltdata) THEN Len(wltdata)
                        ELSE pos + 1 + HashWidth + LenWidth + wltdata[pos + 3]
                   ELSE IF dtype = WLT_DATATYPE_DELETED
                   THEN IF pos + 2 > Len(wltdata) THEN Len(wltdata)
                        ELSE pos + 1 + LenWidth + wltdata[pos + 2]
                   ELSE pos + 1
       IN {pos} \cup EntryStarts(wltdata, next)

\* the address under key a160 knows its place in the wallet file, and the file
\* holds its serialization there
OffsetAgrees(a160) ==
  LET wltdata == data["P"]
      loc == addrMap[a160].walletByteLoc
  IN /\ IF a160 = ROOT THEN loc = offsetRootAddr
        ELSE \E pos \in EntryStarts(wltdata, HeaderSize) :
               /\ pos + 1 + HashWidth + pybtcaddrSize <= Len(wltdata)
               /\ wltdata[pos + 1] = WLT_DATATYPE_KEYDATA
               /\ wltdata[pos + 2] = a160
               /\ loc = KeyDataLoc(pos)
     /\ loc >= 0
     /\ loc + pybtcaddrSize <= Len(wltdata)
     /\ wltdata[loc + 1] = serialize(addrMap[a160])

\* C19: after any sequence of calls that completed, for the root and every
\* address in addrMap, walletByteLoc is the position of the address's record in
\* the wallet file (offsetRootAddr for the root, past the type byte and the hash
\* of its entry otherwise) and the record stored there is the address's
\* serialization.
C19_OffsetAgreement ==
  HasWallet => \A a160 \in DOMAIN addrMap : OffsetAgrees(a160)

\* an unlocked encrypted wallet with a chained address made after its creation,
\* no address waiting for its private key, and an imported address
C19_Witness ==
  /\ HasWallet
  /\ useEncryption
  /\ ~isLocked
  /\ Hash160(IMPORTED) \in DOMAIN addrMap
  /\ lastComputedChainIndex >= addrPoolSize
  /\ \A a160 \in DOMAIN addrMap : ~addrMap[a160].createPrivKeyNextUnlock


-----------------------------------------------------------------------------
(* Claims about imported addresses (SpecImport) *)

\* the address hash of a private key
ComputedAddr20(privKey) == convertKeyDataToAddress(ComputePublicKey(privKey))

\* the caller hands a public key or an address hash that is not the key's
Disagrees(args) ==
  /\ args[1] # 0
  /\ \/ args[2] # 0 /\ args[2] # ComputePublicKey(args[1])
     \/ args[3] # 0 /\ args[3] # ComputedAddr20(args[1])

\* C21: importExternalAddressData given a private key and a public key or a
\* 20-byte address hash that disagrees with the one computed from the private
\* key rejects the import: it writes nothing to the file, registers nothing and
\* stores nothing in addrMap and linearAddr160List.  Given a public key and an
\* address hash that agree with the private key, or neither, it stores the
\* address unless it is a duplicate, the wallet is locked or the update fails.
C21_MismatchRejected ==
  [][(lastOp' = "importExternalAddressData" /\ HasWallet) =>
     \A args \in ImportArgs, fault \in FaultsWithin(1) :
       \A s \in {Self("importExternalAddressData", fault)} :
         \A r \in {importExternalAddressData(s, args[1], args[2], args[3])} :
           Install(r) =>
             /\ Disagrees(args) =>
                  /\ r.updates = <<>>
                  /\ r.registered = <<>>
                  /\ UNCHANGED <<addrMap, linearAddr160List, data>>
             /\ ( /\ args[1] # 0
                  /\ ~Disagrees(args)
                  /\ ComputedAddr20(args[1]) \notin DOMAIN addrMap
                  /\ ~(useEncryption /\ ~kdfKey.obj)
                  /\ fault = NoFault )
                => /\ ComputedAddr20(args[1]) \in DOMAIN addrMap'
                   /\ raised' = "none"]_vars

\* C22: importExternalAddressData given a private key whose address is in
\* addrMap already, or given a private key while the wallet is encrypted and
\* holds no derived key, hands nothing to walletFileSafeUpdate, registers
\* nothing and leaves the wallet object and the files as they were; when the
\* wallet is locked and holds neither the computed address nor the address hash
\* the caller supplied, it raises WalletLockError.
C22_RejectedImportNoOp ==
  [][(lastOp' = "importExternalAddressData" /\ HasWallet) =>
     \A args \in ImportArgs, fault \in FaultsWithin(1) :
       \A s \in {Self("importExternalAddressData", fault)} :
         \A r \in {importExternalAddressData(s, args[1], args[2], args[3])} :
           ( /\ Install(r)
             /\ args[1] # 0
             /\ \/ ComputedAddr20(args[1]) \in DOMAIN addrMap
                \/ useEncryption /\ ~kdfKey.obj )
           => /\ r.updates = <<>>
              /\ r.registered = <<>>
              /\ UNCHANGED <<useEncryption, isLocked, kdf, kdfKey, defaultKeyLifetime,
                             lockWalletAtTime, addrMap, linearAddr160List, chainIndexMap,
                             lastComputedChainIndex, lastComputedChainAddr160,
                             highestUsedChainIndex, labelName, labelDescr, commentsMap,
                             commentLocs, exists, data>>
              /\ ( /\ ComputedAddr20(args[1]) \notin DOMAIN addrMap
                   /\ args[3] = 0 \/ args[3] \notin DOMAIN addrMap )
                 => raised' = "WalletLockError"]_vars

\* a locked wallet has refused to import a private key
C22_Witness ==
  /\ lastOp = "importExternalAddressData"
  /\ raised = "WalletLockError"
  /\ useEncryption
  /\ isLocked
  /\ Hash160(IMPORTED) \notin DOMAIN addrMap

\* C23: an importExternalAddressData that returns the new address has handed
\* walletFileSafeUpdate one update list, a single ADD of a key-data record that
\* is then the end of the wallet file, has stored the address with chainIndex
\* -2 in addrMap and at the end of linearAddr160List, has registered it once
\* with TheBDM, and has left lastComputedChainIndex, lastComputedChainAddr160,
\* highestUsedChainIndex, the entries of chainIndexMap at indexes >= 0,
\* isLocked and kdfKey as they were.
C23_ImportStoresOneRecord ==
  [][(lastOp' = "importExternalAddressData" /\ HasWallet) =>
     \A args \in ImportArgs, fault \in FaultsWithin(1) :
       \A s \in {Self("importExternalAddressData", fault)} :
         \A r \in {importExternalAddressData(s, args[1], args[2], args[3])} :
           (Install(r) /\ ~Failed(r) /\ r.updates # <<>>)
           => LET newAddr160 == ComputedAddr20(args[1])
                  n == Len(data["P"])
              IN /\ r.ret = newAddr160
                 /\ Len(r.updates) = 1
                 /\ Len(r.updates[1]) = 1
                 /\ r.updates[1][1].modType = WLT_UPDATE_ADD
                 /\ r.updates[1][1].dtype = WLT_DATATYPE_KEYDATA
                 /\ r.updates[1][1].hash = newAddr160
                 /\ data'["P"] = data["P"] \o <<WLT_DATATYPE_KEYDATA, newAddr160,
                                                 r.updates[1][1].payload>>
                 /\ unserialize(data'["P"][n + 3]).chainIndex = IMPORTED
                 /\ newAddr160 \notin DOMAIN addrMap
                 /\ DOMAIN addrMap' = DOMAIN addrMap \cup {newAddr160}
                 /\ \A a160 \in DOMAIN addrMap : addrMap'[a160] = addrMap[a160]
                 /\ addrMap'[newAddr160].chainIndex = IMPORTED
                 /\ addrMap'[newAddr160].walletByteLoc = KeyDataLoc(n)
                 /\ linearAddr160List' = Append(linearAddr160List, newAddr160)
                 /\ r.registered = <<newAddr160>>
                 /\ \A i \in (DOMAIN chainIndexMap \cup DOMAIN chainIndexMap') :
                      i >= 0 => /\ i \in DOMAIN chainIndexMap
                                /\ i \in DOMAIN chainIndexMap'
                                /\ chainIndexMap'[i] = chainIndexMap[i]
                 /\ UNCHANGED <<lastComputedChainIndex, lastComputedChainAddr160,
                                highestUsedChainIndex, isLocked, kdfKey, useEncryption>>]_vars

\* an unlocked encrypted wallet has imported an address
C23_Witness ==
  /\ lastOp = "importExternalAddressData"
  /\ raised = "none"
  /\ suFailed = "none"
  /\ useEncryption
  /\ ~isLocked
  /\ Hash160(IMPORTED) \in DOMAIN addrMap
  /\ addrMap[Hash160(IMPORTED)].encKey = kdfKey.val
  /\ linearAddr160List[Len(linearAddr160List)] = Hash160(IMPORTED)
  /\ Len(data["P"]) = HeaderSize + 3 * (addrPoolSize + 1)

\* C24: deleteImportedAddress on an address of the wallet whose chainIndex is
\* not -2, a chained address or the root, raises WalletAddressError, hands
\* nothing to walletFileSafeUpdate and leaves the wallet file, the backup, the
\* flag files and the wallet object as they were.
C24_OnlyImportedDeletable ==
  [][(lastOp' = "deleteImportedAddress" /\ HasWallet) =>
     \A addr160 \in DOMAIN addrMap, fault \in FaultsWithin(1) :
       \A s \in {Self("deleteImportedAddress", fault)} :
         \A r \in {deleteImportedAddress(s, addr160)} :
           (Install(r) /\ addrMap[addr160].chainIndex # IMPORTED)
           => /\ raised' = "WalletAddressError"
              /\ r.updates = <<>>
              /\ UNCHANGED <<useEncryption, isLocked, kdf, kdfKey, defaultKeyLifetime,
                             lockWalletAtTime, addrMap, linearAddr160List, chainIndexMap,
                             lastComputedChainIndex, lastComputedChainAddr160,
                             highestUsedChainIndex, labelName, labelDescr, commentsMap,
                             commentLocs, exists, data>>]_vars

\* a wallet that holds an imported address was asked to delete another one
C24_Witness ==
  /\ lastOp = "deleteImportedAddress"
  /\ raised = "WalletAddressError"
  /\ Hash160(IMPORTED) \in DOMAIN addrMap
  /\ ~isLocked

-----------------------------------------------------------------------------
(* Claims about the entries of a wallet that is read again (SpecEntries) *)

\* C25: after a deleteImportedAddress of an imported address that completed,
\* the entry of the address is a tombstone: the deleted type, a length, and
\* that many zeros, which together fill the 1 + 20 + pybtcaddrSize bytes of the
\* entry; the rest of the file is as before and its entries start where they
\* did; the wallet read back lacks the address and nothing else: every other
\* address has its place and its record, every comment its text, and addrMap
\* is one address smaller.
C25_DeleteLeavesTombstone ==
  [][(lastOp' = "deleteImportedAddress" /\ HasWallet) =>
     \A addr160 \in DOMAIN addrMap, fault \in FaultsWithin(1) :
       \A s \in {Self("deleteImportedAddress", fault)} :
         \A r \in {deleteImportedAddress(s, addr160)} :
           ( /\ Install(r)
             /\ ~Failed(r)
             /\ r.suFailed = "none"
             /\ addrMap[addr160].chainIndex = IMPORTED )
           => LET start == addrMap[addr160].walletByteLoc - (1 + HashWidth)
                  width == 1 + HashWidth + pybtcaddrSize
                  deletedLen == data'["P"][start + 1 + LenWidth]
              IN /\ data'["P"][start + 1] = WLT_DATATYPE_DELETED
                 /\ 1 + LenWidth + deletedLen = width
                 /\ \A i \in 1..deletedLen : data'["P"][start + 1 + LenWidth + i] = 0
                 /\ Len(data'["P"]) = Len(data["P"])
                 /\ \A i \in 1..Len(data["P"]) :
                      (i <= start \/ i > start + width) => data'["P"][i] = data["P"][i]
                 /\ EntryStarts(data'["P"], HeaderSize) = EntryStarts(data["P"], HeaderSize)
                 /\ DOMAIN addrMap' = DOMAIN addrMap \ {addr160}
                 /\ Cardinality(DOMAIN addrMap') = Cardinality(DOMAIN addrMap) - 1
                 /\ \A a160 \in DOMAIN addrMap' :
                      /\ addrMap'[a160].walletByteLoc = addrMap[a160].walletByteLoc
                      /\ serialize(addrMap'[a160]) = serialize(addrMap[a160])
                 /\ commentsMap' = commentsMap]_vars

\* an imported address was deleted from a wallet with a comment, whose file
\* has entries before and after the tombstone
C25_Witness ==
  /\ lastOp = "deleteImportedAddress"
  /\ raised = "none"
  /\ suFailed = "none"
  /\ Hash160(IMPORTED) \notin DOMAIN addrMap
  /\ DOMAIN commentsMap # {}
  /\ \E pos \in EntryStarts(data["P"], HeaderSize) :
       /\ data["P"][pos + 1] = WLT_DATATYPE_DELETED
       /\ pos > HeaderSize
       /\ pos + 1 + HashWidth + pybtcaddrSize < Len(data["P"])

-----------------------------------------------------------------------------
(* Claims about signing (SpecSign) *)

\* C26: a signTxDistProposal that returns leaves highestUsedChainIndex at the
\* larger of its value before and the largest chainIndex of the wallet's
\* addresses it signed with, and the pool refilled, lastComputedChainIndex -
\* highestUsedChainIndex >= addrPoolSize, when it advanced; it leaves
\* highestUsedChainIndex alone when it signed with imported addresses only.
C26_SigningAdvancesHighest ==
  [][(lastOp' = "signTxDistProposal" /\ HasWallet) =>
     \A inputs \in TxInputs, fault \in FaultsWithin(1) :
       \A s \in {Self("signTxDistProposal", fault)} :
         \A r \in {signTxDistProposal(s, inputs)} :
           (Install(r) /\ ~Failed(r))
           => LET used == {addrMap[r.ret[i]].chainIndex : i \in 1..Len(r.ret)}
                  top == Max(highestUsedChainIndex,
                             IF used = {} THEN -1
                             ELSE CHOOSE i \in used : \A j \in used : j <= i)
              IN /\ highestUsedChainIndex' = top
                 /\ highestUsedChainIndex' >= highestUsedChainIndex
                 /\ top > highestUsedChainIndex =>
                      lastComputedChainIndex' - highestUsedChainIndex' >= addrPoolSize
                 /\ used \subseteq {IMPORTED} => UNCHANGED highestUsedChainIndex]_vars

-----------------------------------------------------------------------------
(* Claims about wallet files from elsewhere (SpecLoad) *)

\* the wallet file as readWalletFile reads it, after the consistency check
FileRead == doWalletFileConsistencyCheck([exists |-> exists, data |-> data]).data["P"]

\* C27: readWalletFile on a wallet file whose magic bytes are another
\* blockchain's, or whose unique id ends in another network's byte, rejects the
\* file: it raises, and it does not start to read entries.
C27_OtherChainRejected ==
  [][(lastOp' = "readWalletFile" /\ "P" \in exists) =>
     \A garbled \in BOOLEAN :
       \A s \in {[Self("readWalletFile", NoFault) EXCEPT !.garbled = garbled]} :
         \A r \in {readWalletFile(s)} :
           (Install(r) /\ Len(FileRead) >= HeaderSize /\ ~headerMatches(FileRead))
           => /\ raised' # "none"
              /\ r.entriesFrom = -1]_vars

\* C28: readWalletFile on a wallet file with an entry whose type byte is no
\* known type raises; when the first such entry is an OP_EVAL entry it raises
\* NotImplementedError.
C28_UnknownTypeFatal ==
  [][(lastOp' = "readWalletFile" /\ "P" \in exists) =>
     \A garbled \in BOOLEAN :
       \A s \in {[Self("readWalletFile", NoFault) EXCEPT !.garbled = garbled]} :
         \A r \in {readWalletFile(s)} :
           (Install(r) /\ Len(FileRead) >= HeaderSize /\ headerMatches(FileRead))
           => LET bad == {pos \in EntryStarts(FileRead, HeaderSize) :
                            FileRead[pos + 1] \notin
                              {WLT_DATATYPE_KEYDATA, WLT_DATATYPE_ADDRCOMMENT,
                               WLT_DATATYPE_TXCOMMENT, WLT_DATATYPE_DELETED}}
                  first == CHOOSE pos \in bad : \A q \in bad : pos <= q
              IN bad # {} =>
                   /\ raised' # "none"
                   /\ FileRead[first + 1] = WLT_DATATYPE_OPEVAL
                        => raised' = "NotImplementedError"]_vars

-----------------------------------------------------------------------------
(* Claims about comments (SpecComments) *)

\* the wallet read back from the files a call has left
ReloadOf(r) ==
  readWalletFile([r EXCEPT !.lastOp = "readWalletFile", !.raised = "none",
                           !.suFailed = "none", !.fault = NoFault])

\* file with the payload of the comment entry at loc set to zero
ZeroedComment(file, loc) ==
  [i \in 1..Len(file) |->
     IF /\ i > loc + 1 + HashWidth + LenWidth
        /\ i <= loc + 1 + HashWidth + LenWidth + file[loc + 1 + HashWidth + LenWidth]
     THEN 0 ELSE file[i]]

\* C29: a setComment that completes leaves the wallet file with the payload of
\* the hash's previous comment entry, if it had one, set to zero in place and
\* with one new comment entry appended, commentLocs[hash] at the start of that
\* new entry, and a wallet read back from the file returns the new comment for
\* the hash.
C29_LastCommentSurvivesReload ==
  [][(lastOp' = "setComment" /\ HasWallet) =>
     \A hashVal \in {Hash160(0), TxHash},
        newComment \in {<<>>} \cup {<<c>> : c \in 1..NumComments},
        fault \in FaultsWithin(1) :
       \A s \in {Self("setComment", fault)} :
         \A r \in {setComment(s, hashVal, newComment)} :
           (Install(r) /\ ~Failed(r) /\ r.suFailed = "none")
           => LET dtype == IF hashVal = TxHash THEN WLT_DATATYPE_TXCOMMENT
                           ELSE WLT_DATATYPE_ADDRCOMMENT
                  before == IF hashVal \in DOMAIN commentLocs
                            THEN ZeroedComment(data["P"], commentLocs[hashVal])
                            ELSE data["P"]
              IN /\ data'["P"] = before \o <<dtype, hashVal, Len(newComment)>>
                                        \o newComment
                 /\ commentLocs'[hashVal] = Len(data["P"])
                 /\ getComment(ReloadOf(r), hashVal) = newComment
                 /\ ReloadOf(r).commentLocs[hashVal] = Len(data["P"])]_vars

-----------------------------------------------------------------------------
(* The round trip through the wallet file (SpecRoundTrip) *)

\* isEqualTo, lines 2907-2941: unique id, labels, and the serialization of
\* every address of self, the root first; a missing address is the except branch
isEqualTo(self, wlt2) ==
  /\ UniqueID(ADDRBYTE, self.linearAddr160List[1]) = wlt2.data["P"][offsetUniqueID + 1]
  /\ self.labelName = wlt2.labelName
  /\ self.labelDescr = wlt2.labelDescr
  /\ ROOT \in DOMAIN self.addrMap /\ ROOT \in DOMAIN wlt2.addrMap
  /\ \A addr160 \in DOMAIN self.addrMap :
       /\ addr160 \in DOMAIN wlt2.addrMap
       /\ serialize(self.addrMap[addr160]) = serialize(wlt2.addrMap[addr160])

\* C30: when every call so far has completed, the wallet read back from the
\* primary file is equal to the wallet in memory by isEqualTo, and has the same
\* highestUsedChainIndex, lastComputedChainIndex and KDF parameters.
C30_RoundTrip ==
  HasWallet =>
    \A wlt2 \in {Reloaded} :
      /\ ~Failed(wlt2)
      /\ isEqualTo(Self("isEqualTo", NoFault), wlt2)
      /\ wlt2.highestUsedChainIndex = highestUsedChainIndex
      /\ wlt2.lastComputedChainIndex = lastComputedChainIndex
      /\ wlt2.kdf = kdf

-----------------------------------------------------------------------------
(* Claims about the calls of the BDM's methods (SpecBDM) *)

\* the registrations of chained addresses among the BDM calls of a call
ScrAddrRegistrations(r) == SelectSeq(r.bdm, LAMBDA c : c.call = "registerScrAddr")

PathAgrees(r) == \A i \in 1..Len(r.bdm) : r.bdm[i].direct = calledFromBDM

\* C32: every call of the BDM that a wallet method makes is a _bdm_direct call
\* when calledFromBDM is set and a queued call when it is clear, and
\* createNewWallet and importExternalAddressData called with the flag set
\* return without a call of the BDM and without a change of the wallet or of
\* its files.
C32_DirectIffCalledFromBDM ==
  [][/\ (lastOp' = "checkIfRescanRequired" /\ HasWallet) =>
          \A bdmState \in BDMStates :
            \A s \in {[Self("checkIfRescanRequired", NoFault)
                         EXCEPT !.bdmState = bdmState]} :
              \A r \in {checkIfRescanRequired(s)} : Install(r) => PathAgrees(r)
     /\ (lastOp' = "syncWithBlockchain" /\ HasWallet) =>
          \A bdmState \in BDMStates :
            \A s \in {[Self("syncWithBlockchain", NoFault)
                         EXCEPT !.bdmState = bdmState]} :
              \A r \in {syncWithBlockchain(s)} : Install(r) => PathAgrees(r)
     /\ (lastOp' = "computeNextAddress" /\ HasWallet) =>
          \A doRegister \in BOOLEAN, fault \in FaultsWithin(1) :
            \A s \in {[Self("computeNextAddress", fault)
                         EXCEPT !.doRegister = doRegister]} :
              \A r \in {computeNextAddress(s, s.lastComputedChainAddr160)} :
                Install(r) => PathAgrees(r)
     /\ (lastOp' = "importExternalAddressData" /\ HasWallet) =>
          \A args \in ImportArgs, fault \in FaultsWithin(1) :
            \A s \in {Self("importExternalAddressData", fault)} :
              \A r \in {importExternalAddressData(s, args[1], args[2], args[3])} :
                Install(r) => /\ PathAgrees(r)
                              /\ calledFromBDM =>
                                   /\ r.bdm = <<>> /\ r.updates = <<>>
                                   /\ UNCHANGED <<exists, data, addrMap,
                                                  linearAddr160List, calledFromBDM>>
     /\ (lastOp' = "deleteImportedAddress" /\ HasWallet) =>
          \A addr160 \in DOMAIN addrMap, fault \in FaultsWithin(1),
             bdmState \in {"Offline", "BlockchainReady"} :
            \A s \in {[Self("deleteImportedAddress", fault)
                         EXCEPT !.bdmState = bdmState]} :
              \A r \in {deleteImportedAddress(s, addr160)} :
                Install(r) => PathAgrees(r)
     /\ (lastOp' = "createNewWallet" /\ calledFromBDM) =>
          UNCHANGED <<exists, data, addrMap, linearAddr160List, useEncryption, kdf,
                      kdfKey, isLocked, calledFromBDM>>]_vars

-----------------------------------------------------------------------------
(* The order of the effects of a safe update (SpecFS) *)

\* the file with the append and the first n changes of the running update
Written(n) ==
  WriteAll(preData \o binaryToAppend(updateList),
           SubSeq(dataToChange(updateList), 1, n))

-----------------------------------------------------------------------------
(* A crash inside changeWalletEncryption, then a new process opening the
   wallet (SpecCrash) *)

\* the process that crashed makes no further call
Alive == raised # "Crash"

NextCrash ==
  \/ Alive /\ CreateNewWallet /\ Completed
  \/ Alive /\ ComputeNextAddress /\ Completed
  \/ Alive /\ Unlock
  \/ Alive /\ ChangeWalletEncryption
  \/ Alive /\ ChangeWalletEncryptionCrash
  \/ ~Alive /\ ReadWalletFile

SpecCrash == Init /\ [][NextCrash]_vars

\* the header's encrypted flag agrees with the key record of the root and of
\* every address of the wallet file
FlagAgrees(wltdata) ==
  LET flag == wltdata[offsetWltFlags + 1] % 2 = 1
  IN /\ unserialize(wltdata[offsetRootAddr + 1]).useEncryption = flag
     /\ \A pos \in EntryStarts(wltdata, HeaderSize) :
          wltdata[pos + 1] = WLT_DATATYPE_KEYDATA
            => unserialize(wltdata[pos + 3]).useEncryption = flag

\* C34: a changeWalletEncryption that changes whether the wallet is encrypted
\* hands walletFileSafeUpdate one list holding the flags change and one change
\* per key record, and whenever a crash inside it is followed by the recovery
\* of the files, the header flag agrees with every key record
C34_FlagAgreesAfterCrash ==
  /\ raised = "Crash"
       => FlagAgrees(doWalletFileConsistencyCheck([exists |-> exists, data |-> data]).data["P"])
  /\ (lastOp = "readWalletFile" /\ raised = "none") => FlagAgrees(data["P"])

-----------------------------------------------------------------------------
(* Addresses made while the wallet is locked, and the next unlock
   (SpecDeferred) *)

NextDeferred ==
  \/ CreateNewWallet
  \/ FillAddressPool
  \/ ComputeNextAddress
  \/ Lock
  \/ Unlock

SpecDeferred == Init /\ [][NextDeferred]_vars

\* the addresses whose private key waits for the next unlock
Deferred(addrs) == {h \in DOMAIN addrs : addrs[h].createPrivKeyNextUnlock}

\* C35: fillAddressPool on a locked wallet succeeds unless an I/O error strikes
\* and marks every address it makes createPrivKeyNextUnlock; an unlock that
\* succeeds goes through the addresses in ascending chain-index order, finds
\* the chain predecessor of every deferred address unlocked already, leaves no
\* address deferred, and has rewritten every deferred address in place
C35_DeferredMaterialized ==
  [][/\ (lastOp' = "fillAddressPool" /\ HasWallet /\ isLocked /\ useEncryption)
          => /\ \A h \in DOMAIN addrMap' \ DOMAIN addrMap :
                  addrMap'[h].createPrivKeyNextUnlock
             /\ \A numPool \in {0} \cup (addrPoolSize + 1)..(MaxChainIndex + 1) :
                  \A s \in {Self("fillAddressPool", NoFault)} :
                    \A r \in {fillAddressPool(s, numPool)} :
                      r.lastComputedChainIndex <= MaxChainIndex => r.raised = "none"
     /\ (lastOp' = "unlock" /\ HasWallet /\ isLocked /\ raised' = "none")
          => \A securePassphrase \in 0..NumPass :
               \A s \in {Self("unlock", NoFault)} :
                 \A r \in {unlock(s, None, securePassphrase, 0)} :
                   Install(r) =>
                     /\ Deferred(addrMap') = {}
                     /\ \A i, j \in 1..Len(r.unlockPass) :
                          i < j => r.unlockPass[i].chainIndex <= r.unlockPass[j].chainIndex
                     /\ \A i \in 1..Len(r.unlockPass) :
                          r.unlockPass[i].deferred => r.unlockPass[i].prevReady
                     /\ \A h \in Deferred(addrMap) :
                          /\ addrMap'[h].walletByteLoc = addrMap[h].walletByteLoc
                          /\ addrMap[h].walletByteLoc >= 0
                          /\ \E i \in 1..Len(r.updates) :
                               r.updates[i] = <<Modify(addrMap[h].walletByteLoc,
                                                       <<serialize(addrMap'[h])>>)>>
                          /\ data'["P"][addrMap[h].walletByteLoc + 1] = serialize(addrMap'[h])
                          /\ Len(data'["P"]) = Len(data["P"])
    ]_vars

-----------------------------------------------------------------------------
\* C36: a wallet that does not use encryption is never locked; lock and
\* checkWalletLockTimeout leave isLocked false on it
C36_LockedImpliesEncrypted == HasWallet => (isLocked => useEncryption)

-----------------------------------------------------------------------------
\* C37: while an encrypted wallet is unlocked, kdfKey is a derived key that
\* has not been destroyed and that verifies against the root address
C37_KeyAliveWhileUnlocked ==
  (HasWallet /\ useEncryption /\ ~isLocked)
    => /\ kdfKey.obj
       /\ kdfKey.val # 0
       /\ PyBtcAddress_verifyEncryptionKey(addrMap[ROOT], kdfKey)

-----------------------------------------------------------------------------
\* C38: deleteImportedAddress changes the deleted address only: the lock state,
\* the derived key, the settings, the chain indices, every other address and
\* every comment are after the call what they were before it
C38_DeleteFrame ==
  [][(lastOp' = "deleteImportedAddress" /\ HasWallet)
       => /\ isLocked' = isLocked
          /\ kdfKey' = kdfKey
          /\ lockWalletAtTime' = lockWalletAtTime
          /\ defaultKeyLifetime' = defaultKeyLifetime
          /\ calledFromBDM' = calledFromBDM
          /\ highestUsedChainIndex' = highestUsedChainIndex
          /\ lastComputedChainIndex' = lastComputedChainIndex
          /\ commentsMap' = commentsMap
          /\ \E addr160 \in DOMAIN addrMap :
               \A h \in DOMAIN addrMap \ {addr160} :
                 h \in DOMAIN addrMap' /\ addrMap'[h] = addrMap[h]
    ]_vars

-----------------------------------------------------------------------------
\* the statements of doWalletFileConsistencyCheck
CheckSteps ==
  {"cc_start", "cc_nb_copy", "cc_nb_rm", "cc_flags", "cc_both_rm", "cc_main_rm",
   "cc_backup_rm"}

\* the files an uninterrupted doWalletFileConsistencyCheck leaves
Checked(e, d) == doWalletFileConsistencyCheck([exists |-> e, data |-> d])

\* C39: on the files a crash leaves, a second run of
\* doWalletFileConsistencyCheck changes nothing of what the first run left, which
\* is the wallet file and an identical backup without flag files; and every
\* filesystem effect of the check leaves files from which a fresh run ends
\* where the uninterrupted run ends, and the check ends there itself
C39_CheckIdempotent ==
  [][/\ (pc = "crashed" /\ "P" \in exists)
          => /\ Checked(Checked(exists, data).exists, Checked(exists, data).data)
                  = Checked(exists, data)
             /\ Checked(exists, data).exists = {"P", "B"}
             /\ Checked(exists, data).data["P"] = Checked(exists, data).data["B"]
     /\ pc \in CheckSteps
          => /\ Checked(exists', data') = Checked(exists, data)
             /\ pc' \notin CheckSteps \cup {"crashed"}
                  => /\ exists' = Checked(exists, data).exists
                     /\ data' = Checked(exists, data).data
    ]_vars

\* the check that follows a crash with both flag files has itself been stopped
\* after it removed the first of them
C39_Witness ==
  /\ pc = "crashed"
  /\ ccRet = "open"
  /\ crashAt = "su_rmMUF"
  /\ exists = {"P", "B", "BUF"}
  /\ preData # PostData

-----------------------------------------------------------------------------
\* C40: the wallet path and the paths of its backup and of its two flag files
\* are pairwise different, and no backup or flag path of the wallet is a backup
\* or flag path of a wallet at another path of the same directory
C40_NoPathCollision ==
  lastOp = "getWalletPath" =>
    /\ \A s1, s2 \in NameSuffixes \cup {NoSuffix} :
         s1 # s2 => getWalletPath(walletPath, s1) # getWalletPath(walletPath, s2)
    /\ fpath # getWalletPath(walletPath, NoSuffix)
         => \A other \in WalletPaths \cup {<<>>} : \A s \in NameSuffixes :
              getWalletPath(other, NoSuffix) # getWalletPath(walletPath, NoSuffix)
                => getWalletPath(other, s) # fpath
=============================================================================
